---- MODULE Spec2Model ----
(***************************************************************************)
(* PseudoCore: the sharded page cache of src/cache.c (cache_get,           *)
(* cache_evict, cache_destroy) as a state machine.  Threads call the cache *)
(* operations on one cache_t; every step of a thread is one lock           *)
(* acquisition, one system call or one straight-line region of the code.   *)
(*                                                                         *)
(* A cache entry has ONE pair of links (next, prev, cache.c:208-209) which *)
(* the code uses both for the collision chain of a bucket and for the LRU  *)
(* list; the model keeps exactly that one pair.                            *)
(*                                                                         *)
(* Heap: entries live in slots (addresses).  free() marks a slot reclaimed *)
(* and keeps its bytes; malloc() may hand out any reclaimed slot again.    *)
(* A read of a field of a reclaimed slot is undefined behaviour: it yields *)
(* the stale value or a cleared/garbage one.                               *)
(*                                                                         *)
(* Specifications: Spec (threads on one cache_t), SpecSeq (one worker of   *)
(* core_run on the cache it owns), SpecIO (short pread/pwrite results),    *)
(* SpecCores (the workers, each with its own cache, on one file),          *)
(* SpecSched (the per-core queues of src/scheduler.c, calls interleaved),  *)
(* SpecSchedSeq (the scheduler's calls one at a time, on 1..MaxCores       *)
(* cores), SpecSchedApi (the scheduler's calls interleaved, a smaller      *)
(* load), SpecIter (one worker's loop, of pseudo_core and of the daemon),  *)
(* SpecRing (the workers on the ring log of src/ring_cache.c), SpecStop    *)
(* (one worker from pthread_create to the join, scheduled fairly),         *)
(* SpecBoot (main, its workers and the scheduler's locks), SpecEngine      *)
(* (the CacheEngine of src/cache_engine.c) and SpecEntities (the task and  *)
(* core entities of version 2).                                            *)
(***************************************************************************)
EXTENDS Integers, FiniteSets, Sequences, TLC

\* ---- program constants (cache.c:190-201, config.h) ----
PAGE_SIZE == 4096
COMPRESSION_MIN_LVL == 1
COMPRESSION_MAX_LVL == 9
\* scaled down: in the source HASH_SIZE is 2048 (cache.c:194), MUTEX_GROUPS 16
\* (cache.c:197) and MAX_CACHE_ENTRIES 8192 (config.h:8, which cache.c:200 yields to)
HASH_SIZE == 4
MUTEX_GROUPS == 2
MAX_CACHE_ENTRIES == 2

\* ---- bounds of the model ----
\* version 2, scaled down: in the source DEFAULT_HASH_TABLE_SIZE is 2048
\* (cache_engine.c:10), DEFAULT_MUTEX_GROUPS 16 (l.11), EVICTION_BATCH_SIZE 10
\* (l.15) and max_entries at least MIN_CACHE_ENTRIES = 16 (l.12)
DEFAULT_HASH_TABLE_SIZE == 2
DEFAULT_MUTEX_GROUPS == 2
EVICTION_BATCH_SIZE == 2
EngMaxEntries == 3
\* max_tasks of the CoreEntity (100 in test_pseudo_core_v2.c:65), and the tasks
\* 1..MaxTaskId handed to it
MaxTasks == 2
MaxTaskId == 2
\* keys 0..MaxKey and blocks 1..MaxEBlock of the CacheEngine's callers
MaxKey == 3
MaxEBlock == 2
NThreads == 2
MaxPage == 3
MaxSlots == 4
MaxCalls == 4
\* public operations in a run of the short-read, short-write specification
MaxCallsIO == 3
\* blocks in a worker's segment (seg_size / BLOCK_SIZE; 131072 in the source)
SegBlocks == 2
\* the build-time entry limits the one-worker specification ranges over
MaxLimit == 3
\* versions a page of the backing file goes through
MaxVer == 1
\* scaled down: MAX_QUEUE_SIZE is 128 (scheduler.h:9), MIGRATION_THRESHOLD 5
\* (config.h:9), and a unit is fresh for 10 seconds (scheduler.c:91, 104)
MAX_QUEUE_SIZE == 2
MIGRATION_THRESHOLD == 1
FreshSeconds == 1
\* block numbers reported to the scheduler, the value a hot counter reaches,
\* and the seconds the clock runs
MaxBlock == 2
MaxHot == 2
MaxTime == 1
\* the values CORES takes in the specification of the scheduler calls one at a time
MaxCores == 3
\* the reports the queues of that specification account for (the sum of hot)
MaxLoad == 4
\* the same budget when the calls of the cores interleave
MaxLoadApi == 3
MaxBootIter == 2
\* pages the ring buffer holds: RING_SIZE is 128 MiB, 32768 pages, in the source
RingPages == 2

NULL == 0
NOBODY == 0
\* what a clobbered offset field reads as: no page-aligned offset
GARBAGE == PAGE_SIZE - 1
\* a page of the file that a short write left part old, part new
TORN == 0 - 1
\* no copy of a page
NoCopy == 0 - 2
\* results of pread and pwrite other than PAGE_SIZE: nothing, or part of the page
ShortReads == {0, PAGE_SIZE \div 2}
ShortWrites == {0 - 1, PAGE_SIZE \div 2}

Threads == 1..NThreads
Slots == 1..MaxSlots
Buckets == 0..(HASH_SIZE - 1)
Groups == 0..(MUTEX_GROUPS - 1)
Offsets == {p * PAGE_SIZE : p \in 0..MaxPage}

VARIABLES
    ent,          \* heap: slot -> [live, offset, dirty, next, prev]
    hash,         \* c->hash[]
    lru_head,     \* c->lru_head
    lru_tail,     \* c->lru_tail
    entry_count,  \* c->entry_count (size_t; a negative value v stands for 2^64 + v)
    mutex,        \* c->mutex[]: owner of each shard lock
    lru_mutex,    \* c->lru_mutex: owner
    th,           \* per thread: program counter and locals
    destroying,   \* cache_destroy has been entered
    crashed,      \* the process was aborted (segfault, allocator abort)
    ub,           \* kinds of undefined behaviour executed so far
    reclaim,      \* per slot: how evict/destroy last reclaimed a live entry
    calls,        \* number of public operations started so far
    max_entries,  \* the MAX_CACHE_ENTRIES the program was built with
    disk,         \* backing file: offset -> version of the page stored there
    hist,         \* what the worker owning the cache has seen of its last calls
    core,         \* core_run, per worker: position in the loop and locals
    priv,         \* core_run, per worker: the pages its own cache_t holds
    queues,       \* scheduler.c:6, per core: the work units w[0..count-1]
    now,          \* the value time(NULL) returns
    mig,          \* per core: position in should_migrate / get_migrated_task and locals
    seen,         \* per core and block: hot after the last report, 0 once migrated
    given,        \* per block: the core it was migrated to and that has not reported it since
    threshold,    \* MIGRATION_THRESHOLD of the build (config.h:9)
    it,           \* core_run, one worker: the program, the position in the loop, the locals
    ring_pos,     \* ring_cache.c:6
    ring_buffer,  \* ring_cache.c:7: NULL or the allocation it points to
    ring_mutex,   \* ring_cache.c:8: the owner, and whether it is initialised
    ring_live,    \* the allocations of ring_cache_init not freed yet
    ring_ub,      \* a page was copied to where no ring buffer is
    rt,           \* per worker: position in core_run's use of the ring
    sup,          \* the termination flags, and one worker's position between start and join
    eng,          \* v2: the CacheEngine of cache_engine.c and the result of the last call
    eput,         \* v2: per key, the block of its last successful put, NULL once removed or evicted
    task,         \* v2: one TaskEntity of task_entity.c and the result of the last call on it
    cent,         \* v2: one CoreEntity (core_entity.c) and the result of the last call on it
    boot          \* main: which main runs, its position, the scheduler locks, the workers

vars == <<ent, hash, lru_head, lru_tail, entry_count, mutex, lru_mutex, th,
          destroying, crashed, ub, reclaim, calls, max_entries, disk, hist, core, priv,
          queues, now, mig, seen, given, threshold,
          it, ring_pos, ring_buffer, ring_mutex, ring_live, ring_ub, rt, sup,
          eng, eput, task, cent, boot>>

\* the state outside the one cache_t the cache operations work on
schedVars == <<queues, now, mig, seen, given, threshold>>
ringVars == <<ring_pos, ring_buffer, ring_mutex, ring_live, ring_ub, rt>>
\* the entities of version 2 (README_v2.md)
engVars == <<eng, eput>>
v2Vars == <<engVars, task, cent>>
pipeRest == <<it, ringVars, sup, boot>>
pipeVars == <<pipeRest, v2Vars>>
outside == <<core, priv, schedVars, pipeVars>>

\* ---- hash_func, cache.c:8-15 ----
\* HashQuot[p] = (mix(p * PAGE_SIZE) / PAGE_SIZE) mod 60, where mix is the
\* 64-bit multiply/xor-shift of lines 9-13 (the products exceed TLC's
\* integers, so the quotients are tabulated); HASH_SIZE must divide 60.
HashQuot == <<0, 49, 12, 15, 24, 9, 31, 31>>

hash_func(off) == HashQuot[(off \div PAGE_SIZE) + 1] % HASH_SIZE

\* ---- mutex_group, cache.c:18-20 ----
mutex_group(h) == h % MUTEX_GROUPS

\* ---- reads of entry fields; a reclaimed slot yields stale or cleared bytes ----
RdNext(m, s) == IF m[s].live THEN {m[s].next} ELSE {m[s].next, NULL}

RdPrev(m, s) == IF m[s].live THEN {m[s].prev} ELSE {m[s].prev, NULL}

RdOffset(m, s) == IF m[s].live THEN {m[s].offset} ELSE {m[s].offset, GARBAGE}

RdDirty(m, s) == IF m[s].live THEN {m[s].dirty} ELSE {m[s].dirty, FALSE}

\* buckets hash_func can yield for an offset read from an entry
BucketsOf(o) == IF o = GARBAGE THEN Buckets ELSE {hash_func(o)}

\* use of a reclaimed slot (read or write)
Uaf(m, S) == IF \E s \in S : s # NULL /\ ~m[s].live THEN {"uaf"} ELSE {}

\* size_t arithmetic on entry_count
CountGT(c, k) == c < 0 \/ c > k

\* data: version of the file page the buffer holds; rd: bytes pread stored in it;
\* rest: what bytes [rd, PAGE_SIZE) of the buffer hold.  last_access (lines 53, 81)
\* is written and never read: it is left out
NoEntry == [live |-> FALSE, offset |-> 0, dirty |-> FALSE, next |-> NULL, prev |-> NULL,
            data |-> 0, rd |-> 0, rest |-> "none"]

NoReclaim == [done |-> FALSE, dirty |-> FALSE, wb |-> FALSE]

IdleTh == [pc |-> "idle", off |-> 0, wr |-> FALSE, e |-> NULL, ne |-> NULL,
           ev |-> NULL, eh |-> 0, di |-> 0, ins |-> 0, evd |-> 0,
           dty |-> FALSE, wb |-> FALSE, wo |-> 0]
\* pc: position in the C code; off, wr: arguments of cache_get; e: chain cursor;
\* ne: the new entry; ev, eh: evict's victim and its bucket; di: destroy's bucket
\* index; ins: entry_count right after this get's insertion (line 105); evd: pages
\* this get's eviction reclaimed; dty, wb, wo: the dirty flag evict saw, whether
\* it issued pwrite, and at which offset

H(t) == hash_func(th[t].off)

MG(t) == mutex_group(H(t))

Holds(t) == {g \in Groups : mutex[g] = t}

\* ---- the caller's view of cache_get (cache.c:45, 68, 77, 96, 112) ----
\* one finished cache_get: its arguments, whether it returned a buffer, the
\* entry and the contents of that buffer, entry_count before and after
NoGet == [ok |-> FALSE, off |-> 0, wr |-> FALSE, slot |-> NULL, data |-> 0, rd |-> 0,
          rest |-> "none", cnt0 |-> 0, cnt1 |-> 0]

\* the cache as it was when the call in progress began (kept during the call)
NoSnap == [ent |-> [s \in Slots |-> NoEntry], hash |-> [b \in Buckets |-> NULL],
           lru_head |-> NULL, lru_tail |-> NULL, entry_count |-> 0]

\* last, prev: the two most recent finished calls of cache_get; snap: see NoSnap;
\* order: the offsets cache_get returned a buffer for, most recent first;
\* step: where the worker is with the buffer it got: "got" (line 158 returned
\* it), "copied" (memcpy of line 164 done), "idle" otherwise
NoHist == [last |-> NoGet, prev |-> NoGet, snap |-> NoSnap, order |-> <<>>, step |-> "idle"]

\* offset o becomes the most recent of the sequence
Touch(sq, o) == <<o>> \o SelectSeq(sq, LAMBDA x : x # o)

\* ---- core_run, pseudo_core.c:116-131: a worker before its first iteration ----
\* pc: position in the loop; idx: pos[c->id]; off: offset; buf: what buf holds
NoCore == [pc |-> "pick", idx |-> 0, off |-> 0, buf |-> NoCopy]

\* ---- core_run before its first statement: pseudo_core.c:116-125 (p = "core"), ----
\* ---- pseudo_core_daemon.c:98-102 (p = "daemon")                              ----
\* prev: last_compressed_size; lvl: compression_level; cs: what compress_page
\* returned; wlen: the byte count of the pwrite; failed: cache_get returned
\* NULL; done: what the iteration has done so far
Progs == {"core", "daemon"}
NoIter(p) == [prog |-> p, pc |-> "start", prev |-> PAGE_SIZE, lvl |-> COMPRESSION_MIN_LVL,
              cs |-> 0, wlen |-> 0, failed |-> FALSE, done |-> {}]

\* ---- ring_cache.c:6-8: the statics of the ring, zero before any call ----
RING_SIZE == RingPages * PAGE_SIZE
NoRingMutex == [owner |-> NOBODY, ok |-> TRUE]
NoRt == [pc |-> "new"]
InitRing ==
    /\ ring_pos = 0
    /\ ring_buffer = NULL
    /\ ring_mutex = NoRingMutex
    /\ ring_live = {}
    /\ ring_ub = FALSE
    /\ rt = [w \in Threads |-> NoRt]
\* ---- pseudo_core.c:66, 69, 284: running and global_running are 1 when a ----
\* ---- worker is created; pc: where the worker is between pthread_create ----
\* ---- and its return; at: the cache operations made when it last tested ----
\* ---- the flags; joined: pthread_join of main has returned              ----
NoSup == [global_running |-> TRUE, running |-> TRUE, pc |-> "start", at |-> 0, joined |-> FALSE]

\* ---- cache_engine_create, cache_engine.c:152-231: an empty engine ----
\* a chain of hash_table is the sequence of its entries from the head along
\* hash_next, an entry is [key, block]; lru is the list from lru_head along
\* next; op, key, ret: the last call and what it returned; out: the keys whose
\* entries that call destroyed; stuck: the call never returned
EngKeys == 0..MaxKey
EngBlocks == 1..MaxEBlock
EngBuckets == 0..(DEFAULT_HASH_TABLE_SIZE - 1)
NoEng == [hash_table |-> [i \in EngBuckets |-> <<>>], lru |-> <<>>, current_entries |-> 0,
          op |-> "none", key |-> 0, ret |-> 0, out |-> {}, stuck |-> FALSE]

\* ---- task_entity_create, task_entity.c:85-135, as test_task_entity calls it ----
\* ---- (test_pseudo_core_v2.c:121-127); the priorities in the order of       ----
\* ---- task_entity.c:635-638                                                 ----
TaskStates == {"PENDING", "RUNNING", "COMPLETED", "FAILED", "CANCELLED"}
TaskPriorities == {"LOW", "NORMAL", "HIGH", "CRITICAL"}
NoTask == [state |-> "PENDING", priority |-> "HIGH", op |-> "create", arg |-> "HIGH", ret |-> "task"]

\* ---- core_entity_create, unnamed/part_002:68-128 ----
CoreStates == {"IDLE", "RUNNING", "SLEEPING", "ERROR", "SHUTDOWN"}
NoCent == [state |-> "IDLE", current_task |-> NULL, task_count |-> 0,
           op |-> "create", ret |-> TRUE]

InitV2 ==
    /\ eng = NoEng
    /\ eput = [k \in EngKeys |-> NULL]
    /\ task = NoTask
    /\ cent = NoCent
\* ---- before main: CoreQueue queues[CORES] = {0} (scheduler.c:6), no thread ----
\* prog: the main that runs, "none" before it starts; pc: main's position;
\* i, j: main's loop indexes; locks: the state of queues[..].mutex; w: per
\* worker its position, args[..].running and the iterations it has begun
NoBootWorker == [pc |-> "none", running |-> FALSE, n |-> 0]
NoBoot == [prog |-> "none", pc |-> "exec", i |-> 1, j |-> 1, global_running |-> TRUE,
           locks |-> "static", w |-> [c \in 1..MaxCores |-> NoBootWorker]]

InitPipe == it = NoIter("core") /\ InitRing /\ sup = NoSup /\ InitV2 /\ boot = NoBoot

\* ---- scheduler.c:6, 17-23: the queues are empty, no call is in progress ----
Blocks == 0..MaxBlock
\* pc: position in the call; avg, id: the locals avg and max_load_id; m: the
\* value get_migrated_task returns (pseudo_core.c:152)
NoMig == [pc |-> "idle", avg |-> 0, id |-> 0, m |-> 0]
InitSchedOn(C) ==
    /\ queues = [w \in C |-> <<>>]
    /\ now = 0
    /\ mig = [w \in C |-> NoMig]
\* seen and given are records of the history: each is kept where it is looked
\* at, and is the empty function elsewhere
InitSched ==
    /\ InitSchedOn(Threads)
    /\ seen = [w \in Threads |-> [b \in Blocks |-> 0]]
    /\ given = <<>>
    /\ threshold = MIGRATION_THRESHOLD

\* ---- cache_init, cache.c:31-43 (in main's workers: pseudo_core.c:119) ----
Init ==
    /\ ent = [s \in Slots |-> NoEntry]
    /\ hash = [b \in Buckets |-> NULL]
    /\ lru_head = NULL
    /\ lru_tail = NULL
    /\ entry_count = 0
    /\ mutex = [g \in Groups |-> NOBODY]
    /\ lru_mutex = NOBODY
    /\ th = [t \in Threads |-> IdleTh]
    /\ destroying = FALSE
    /\ crashed = FALSE
    /\ ub = {}
    /\ reclaim = [s \in Slots |-> NoReclaim]
    /\ calls = 0
    /\ max_entries = MAX_CACHE_ENTRIES
    /\ disk = [o \in Offsets |-> 0]
    /\ hist = NoHist
    /\ core = [w \in Threads |-> NoCore]
    /\ priv = [w \in Threads |-> [o \in Offsets |-> NoCopy]]
    /\ InitSched
    /\ InitPipe

Running == ~crashed

\* a thread returns r from a public operation: its locals are dead
Return(t, r) == IdleTh

\* ---- cache_get, cache.c:45-47: entry ----
GetCall(t, o, w) ==
    /\ Running /\ ~destroying
    /\ calls < MaxCalls
    /\ calls' = calls + 1
    /\ th[t].pc = "idle"
    /\ th' = [th EXCEPT ![t] = [IdleTh EXCEPT !.pc = "g_lock", !.off = o, !.wr = w]]
    /\ UNCHANGED <<ent, hash, lru_head, lru_tail, entry_count, mutex, lru_mutex,
                   destroying, crashed, ub, reclaim>>
    /\ UNCHANGED <<max_entries, disk>>
    /\ UNCHANGED outside

\* ---- cache.c:48-49: lock the shard, e = c->hash[h] ----
GetLock(t) ==
    /\ Running
    /\ th[t].pc = "g_lock"
    /\ mutex[MG(t)] = NOBODY
    /\ mutex' = [mutex EXCEPT ![MG(t)] = t]
    /\ th' = [th EXCEPT ![t].pc = "g_walk", ![t].e = hash[H(t)]]
    /\ UNCHANGED <<ent, hash, lru_head, lru_tail, entry_count, lru_mutex,
                   destroying, crashed, ub, reclaim, calls>>
    /\ UNCHANGED <<max_entries, disk>>
    /\ UNCHANGED outside

\* ---- cache.c:50-53, 70-71: one iteration of the chain walk ----
GetWalk(t) ==
    /\ Running
    /\ th[t].pc = "g_walk"
    /\ LET e == th[t].e IN
       IF e = NULL
       THEN /\ th' = [th EXCEPT ![t].pc = "g_alloc"]
            /\ UNCHANGED <<ent, ub>>
       ELSE \E o \in RdOffset(ent, e) :
              /\ ub' = ub \cup Uaf(ent, {e})
              /\ IF o = th[t].off
                 THEN /\ ent' = [ent EXCEPT ![e].dirty = IF th[t].wr THEN TRUE ELSE @]
                      /\ th' = [th EXCEPT ![t].pc = "g_hit_lock"]
                 ELSE /\ \E n \in RdNext(ent, e) : th' = [th EXCEPT ![t].e = n]
                      /\ UNCHANGED ent
    /\ UNCHANGED <<hash, lru_head, lru_tail, entry_count, mutex, lru_mutex,
                   destroying, crashed, reclaim, calls>>
    /\ UNCHANGED <<max_entries, disk>>
    /\ UNCHANGED outside

\* ---- cache.c:54: hit, lock the LRU ----
GetHitLock(t) ==
    /\ Running
    /\ th[t].pc = "g_hit_lock"
    /\ lru_mutex = NOBODY
    /\ lru_mutex' = t
    /\ th' = [th EXCEPT ![t].pc = "g_promote"]
    /\ UNCHANGED <<ent, hash, lru_head, lru_tail, entry_count, mutex,
                   destroying, crashed, ub, reclaim, calls>>
    /\ UNCHANGED <<max_entries, disk>>
    /\ UNCHANGED outside

\* a hit that leaves the LRU list as it is
PromoteNothing(m, head, tail, e, p, n) == [m |-> m, head |-> head, tail |-> tail]

\* ---- cache.c:56-65: move e to the front of the LRU list ----
\* result: [m, head, tail] for the values p, n read from e->prev, e->next
Promote(m, head, tail, e, p, n) ==
    IF e = head THEN [m |-> m, head |-> head, tail |-> tail]
    ELSE LET m1 == IF p # NULL THEN [m EXCEPT ![p].next = n] ELSE m
             m2 == IF n # NULL THEN [m1 EXCEPT ![n].prev = p] ELSE m1
             t1 == IF e = tail THEN p ELSE tail
             m3 == [m2 EXCEPT ![e].next = head, ![e].prev = NULL]
             m4 == IF head # NULL THEN [m3 EXCEPT ![head].prev = e] ELSE m3
         IN [m |-> m4, head |-> e, tail |-> IF t1 = NULL THEN e ELSE t1]

\* ---- cache.c:56-68: promote, unlock both, return e->data ----
GetPromote(t) ==
    /\ Running
    /\ th[t].pc = "g_promote"
    /\ LET e == th[t].e IN
       \E p \in RdPrev(ent, e), n \in RdNext(ent, e) :
          LET r == Promote(ent, lru_head, lru_tail, e, p, n) IN
          /\ ent' = r.m
          /\ lru_head' = r.head
          /\ lru_tail' = r.tail
          /\ ub' = ub \cup Uaf(ent, IF e = lru_head THEN {e} ELSE {e, p, n, lru_head})
          /\ th' = [th EXCEPT ![t] = Return(t, e)]
    /\ lru_mutex' = NOBODY
    /\ mutex' = [mutex EXCEPT ![MG(t)] = NOBODY]
    /\ UNCHANGED <<hash, entry_count, destroying, crashed, reclaim, calls>>
    /\ UNCHANGED <<max_entries, disk>>
    /\ UNCHANGED outside

\* ---- cache.c:73-85: allocate the entry and link it at the head of the bucket ----
HashInsert(m, hd, s, o, w) ==
    LET m1 == [m EXCEPT ![s] = [NoEntry EXCEPT !.live = TRUE, !.offset = o, !.dirty = w,
                                               !.next = hd, !.prev = NULL]]
    IN IF hd # NULL THEN [m1 EXCEPT ![hd].prev = s] ELSE m1

\* ---- malloc, cache.c:73 ----
\* slots some pointer of the program still refers to
Referenced ==
    {hash[b] : b \in Buckets} \cup {lru_head, lru_tail}
      \cup {ent[s].next : s \in Slots} \cup {ent[s].prev : s \in Slots}
      \cup {th[t].e : t \in Threads} \cup {th[t].ne : t \in Threads}
      \cup {th[t].ev : t \in Threads}

\* the addresses malloc may return: a reclaimed slot that is still referred to
\* (the new entry then aliases the dangling pointers), or a slot nothing refers
\* to; those are interchangeable and the lowest stands for all of them
MallocChoices ==
    LET free == {s \in Slots : ~ent[s].live}
        fresh == free \ Referenced
    IN (free \cap Referenced)
         \cup {s \in fresh : \A s2 \in fresh : s <= s2}

GetAllocFail(t) ==
    /\ Running
    /\ th[t].pc = "g_alloc"
    /\ mutex' = [mutex EXCEPT ![MG(t)] = NOBODY]
    /\ th' = [th EXCEPT ![t] = Return(t, NULL)]
    /\ UNCHANGED <<ent, hash, lru_head, lru_tail, entry_count, lru_mutex,
                   destroying, crashed, ub, reclaim, calls>>
    /\ UNCHANGED <<max_entries, disk>>
    /\ UNCHANGED outside

GetAlloc(t) ==
    /\ Running
    /\ th[t].pc = "g_alloc"
    /\ \E s \in MallocChoices :
         /\ ent' = HashInsert(ent, hash[H(t)], s, th[t].off, th[t].wr)
         /\ hash' = [hash EXCEPT ![H(t)] = s]
         /\ th' = [th EXCEPT ![t].pc = "g_read", ![t].ne = s]
         /\ reclaim' = [reclaim EXCEPT ![s] = NoReclaim]
         /\ ub' = ub \cup Uaf(ent, {hash[H(t)]})
    /\ UNCHANGED <<lru_head, lru_tail, entry_count, mutex, lru_mutex,
                   destroying, crashed, calls>>
    /\ UNCHANGED <<max_entries, disk>>
    /\ UNCHANGED outside

\* ---- pread into ne->data, cache.c:87: n bytes of the file page arrive ----
\* the entry came from malloc: the bytes pread left alone are uninitialized
Pread(m, ne, o, n) ==
    \E r \in (IF n = PAGE_SIZE THEN {"file"} ELSE {"zero", "junk"}) :
       ent' = [m EXCEPT ![ne].data = disk[o], ![ne].rd = n, ![ne].rest = r]

\* ---- cache.c:87 with read_result = PAGE_SIZE ----
GetRead(t) ==
    /\ Running
    /\ th[t].pc = "g_read"
    /\ Pread(ent, th[t].ne, th[t].off, PAGE_SIZE)
    /\ ub' = ub \cup Uaf(ent, {th[t].ne})
    /\ th' = [th EXCEPT ![t].pc = "g_lru_lock"]
    /\ UNCHANGED <<hash, lru_head, lru_tail, entry_count, mutex, lru_mutex,
                   destroying, crashed, reclaim, calls>>
    /\ UNCHANGED <<max_entries, disk>>
    /\ UNCHANGED outside

\* ---- cache.c:87 with 0 <= read_result < PAGE_SIZE: no branch of the code tests it ----
GetReadShort(t) ==
    /\ Running
    /\ th[t].pc = "g_read"
    /\ \E n \in ShortReads : Pread(ent, th[t].ne, th[t].off, n)
    /\ ub' = ub \cup Uaf(ent, {th[t].ne})
    /\ th' = [th EXCEPT ![t].pc = "g_lru_lock"]
    /\ UNCHANGED <<hash, lru_head, lru_tail, entry_count, mutex, lru_mutex,
                   destroying, crashed, reclaim, calls>>
    /\ UNCHANGED <<max_entries, disk>>
    /\ UNCHANGED outside

\* ---- cache.c:88-97: read_result < 0; free(ne), then unlink through ne ----
GetReadFail(t) ==
    /\ Running
    /\ th[t].pc = "g_read"
    /\ LET ne == th[t].ne
           m1 == [ent EXCEPT ![ne].live = FALSE]
       IN \E n \in RdNext(m1, ne) :
            /\ hash' = IF hash[H(t)] = ne THEN [hash EXCEPT ![H(t)] = n] ELSE hash
            /\ ent' = IF n # NULL THEN [m1 EXCEPT ![n].prev = NULL] ELSE m1
            /\ ub' = IF ent[ne].live THEN ub \cup {"uaf"} ELSE ub \cup {"uaf", "double_free"}
    /\ mutex' = [mutex EXCEPT ![MG(t)] = NOBODY]
    /\ th' = [th EXCEPT ![t] = Return(t, NULL)]
    /\ UNCHANGED <<lru_head, lru_tail, entry_count, lru_mutex, destroying, crashed, reclaim, calls>>
    /\ UNCHANGED <<max_entries, disk>>
    /\ UNCHANGED outside

\* ---- cache.c:99: lock the LRU ----
GetLruLock(t) ==
    /\ Running
    /\ th[t].pc = "g_lru_lock"
    /\ lru_mutex = NOBODY
    /\ lru_mutex' = t
    /\ th' = [th EXCEPT ![t].pc = "g_link"]
    /\ UNCHANGED <<ent, hash, lru_head, lru_tail, entry_count, mutex,
                   destroying, crashed, ub, reclaim, calls>>
    /\ UNCHANGED <<max_entries, disk>>
    /\ UNCHANGED outside

\* ---- cache.c:100-104: link ne at the head of the LRU list ----
LruLink(m, head, ne) ==
    LET m1 == [m EXCEPT ![ne].next = head, ![ne].prev = NULL]
    IN IF head # NULL THEN [m1 EXCEPT ![head].prev = ne] ELSE m1

\* ---- cache.c:107: the eviction test ----
NeedEvict(c) == CountGT(c, max_entries)

\* ---- cache.c:100-108: link, count, test ----
GetLink(t) ==
    /\ Running
    /\ th[t].pc = "g_link"
    /\ LET ne == th[t].ne IN
       /\ ent' = LruLink(ent, lru_head, ne)
       /\ lru_head' = ne
       /\ lru_tail' = IF lru_tail = NULL THEN ne ELSE lru_tail
       /\ entry_count' = entry_count + 1
       /\ ub' = ub \cup Uaf(ent, {ne, lru_head})
       /\ th' = [th EXCEPT ![t].pc = IF NeedEvict(entry_count + 1) THEN "e_check" ELSE "g_unlock",
                           ![t].ins = entry_count + 1]
    /\ UNCHANGED <<hash, mutex, lru_mutex, destroying, crashed, reclaim, calls>>
    /\ UNCHANGED <<max_entries, disk>>
    /\ UNCHANGED outside

\* ---- cache.c:110-112: unlock both, return ne->data ----
GetUnlock(t) ==
    /\ Running
    /\ th[t].pc = "g_unlock"
    /\ lru_mutex' = NOBODY
    /\ mutex' = [mutex EXCEPT ![MG(t)] = NOBODY]
    /\ th' = [th EXCEPT ![t] = Return(t, th[t].ne)]
    /\ UNCHANGED <<ent, hash, lru_head, lru_tail, entry_count,
                   destroying, crashed, ub, reclaim, calls>>
    /\ UNCHANGED <<max_entries, disk>>
    /\ UNCHANGED outside

\* ---- cache_evict, cache.c:115: a direct call of the public routine ----
EvictCall(t) ==
    /\ Running /\ ~destroying
    /\ calls < MaxCalls
    /\ calls' = calls + 1
    /\ th[t].pc = "idle"
    /\ th' = [th EXCEPT ![t] = [IdleTh EXCEPT !.pc = "e_check"]]
    /\ UNCHANGED <<ent, hash, lru_head, lru_tail, entry_count, mutex, lru_mutex,
                   destroying, crashed, ub, reclaim>>
    /\ UNCHANGED <<max_entries, disk>>
    /\ UNCHANGED outside

\* where cache_evict returns to: cache_get line 110, or the caller of the public routine
AfterEvict(t) ==
    IF th[t].ne # NULL THEN [th[t] EXCEPT !.pc = "g_unlock", !.ev = NULL, !.eh = 0,
                                       !.dty = FALSE, !.wb = FALSE, !.wo = 0]
    ELSE Return(t, "none")

\* the victim was a resident page when free() reclaimed it
Evicted(t, wasLive) == [AfterEvict(t) EXCEPT !.evd = IF wasLive /\ th[t].ne # NULL THEN 1 ELSE 0]

\* ---- cache.c:117-120: pick the victim, hash its offset ----
EvictCheck(t) ==
    /\ Running
    /\ th[t].pc = "e_check"
    /\ IF lru_tail = NULL
       THEN /\ th' = [th EXCEPT ![t] = AfterEvict(t)]
            /\ UNCHANGED ub
       ELSE /\ \E o \in RdOffset(ent, lru_tail) : \E b \in BucketsOf(o) :
                 th' = [th EXCEPT ![t].pc = "e_lock", ![t].ev = lru_tail, ![t].eh = b]
            /\ ub' = ub \cup Uaf(ent, {lru_tail})
    /\ UNCHANGED <<ent, hash, lru_head, lru_tail, entry_count, mutex, lru_mutex,
                   destroying, crashed, reclaim, calls>>
    /\ UNCHANGED <<max_entries, disk>>
    /\ UNCHANGED outside

\* ---- cache.c:121: lock the victim's shard (a default mutex: relocking blocks) ----
EvictLock(t) ==
    /\ Running
    /\ th[t].pc = "e_lock"
    /\ mutex[mutex_group(th[t].eh)] = NOBODY
    /\ mutex' = [mutex EXCEPT ![mutex_group(th[t].eh)] = t]
    /\ th' = [th EXCEPT ![t].pc = "e_body"]
    /\ UNCHANGED <<ent, hash, lru_head, lru_tail, entry_count, lru_mutex,
                   destroying, crashed, ub, reclaim, calls>>
    /\ UNCHANGED <<max_entries, disk>>
    /\ UNCHANGED outside

\* ---- cache.c:123-125: unlink the victim through its (one) pair of links ----
EvictUnlink(m, ev, p, n) ==
    LET m1 == IF p # NULL THEN [m EXCEPT ![p].next = n] ELSE m
    IN IF n # NULL THEN [m1 EXCEPT ![n].prev = p] ELSE m1

\* ---- cache.c:127-135: the write-back decision: is pwrite issued for dirty flag d ----
WriteBack(d) == d

\* ---- pwrite(fd, data, PAGE_SIZE, o) returning k, cache.c:128 and 152 ----
\* k < 0: nothing written; 0 < k < PAGE_SIZE: the page in the file is part old,
\* part new; a clobbered offset lies outside the pages of the model
Pwrite(dk, o, d, k) ==
    IF k <= 0 \/ o \notin Offsets THEN dk
    ELSE IF k = PAGE_SIZE \/ dk[o] = d THEN [dk EXCEPT ![o] = d]
    ELSE [dk EXCEPT ![o] = TORN]

\* ---- cache.c:123-135: unlink, fix the bucket head, write back when dirty ----
\* pwrite is a system call: other threads run between it and the free that follows;
\* k is the write_result of line 128 when pwrite is called
EvictBody(t, k) ==
    /\ Running
    /\ th[t].pc = "e_body"
    /\ LET ev == th[t].ev
           eh == th[t].eh
       IN \E p \in RdPrev(ent, ev), n \in RdNext(ent, ev), d \in RdDirty(ent, ev),
             o \in RdOffset(ent, ev) :
           LET m2 == EvictUnlink(ent, ev, p, n)
               wrote == WriteBack(d)
           IN /\ k # PAGE_SIZE => wrote
              /\ hash' = IF hash[eh] = ev THEN [hash EXCEPT ![eh] = n] ELSE hash
              /\ ent' = IF wrote THEN [m2 EXCEPT ![ev].dirty = FALSE] ELSE m2
              /\ disk' = IF wrote THEN Pwrite(disk, o, ent[ev].data, k) ELSE disk
              /\ ub' = ub \cup Uaf(ent, {ev, p, n})
              /\ th' = [th EXCEPT ![t].pc = "e_free", ![t].dty = d,
                                  ![t].wb = wrote, ![t].wo = IF wrote THEN o ELSE 0]
    /\ UNCHANGED <<lru_head, lru_tail, entry_count, mutex, lru_mutex, destroying,
                   crashed, reclaim, calls>>
    /\ UNCHANGED max_entries
    /\ UNCHANGED outside

\* the write-back, if any, stores the whole page
EvictWrite(t) == EvictBody(t, PAGE_SIZE)

\* the write-back fails or stores part of the page (cache.c:129-133)
EvictWriteShort(t) == \E k \in ShortWrites : EvictBody(t, k)

\* ---- cache.c:136-141: free, count, new tail, unlock ----
\* lru_tail is read again at line 139 after free(evict)
EvictFree(t) ==
    /\ Running
    /\ th[t].pc = "e_free"
    /\ LET ev == th[t].ev
           eh == th[t].eh
       IN \E abort \in BOOLEAN :
           LET m3 == [ent EXCEPT ![ev].live = FALSE]
               dbl == ~ent[ev].live
           IN /\ abort => (dbl \/ lru_tail = NULL)
              /\ (lru_tail = NULL) => abort
              /\ reclaim' = IF ent[ev].live
                            THEN [reclaim EXCEPT ![ev] =
                                    [done |-> TRUE, dirty |-> th[t].dty \/ ent[ev].dirty,
                                     wb |-> th[t].wb /\ th[t].wo = ent[ev].offset]]
                            ELSE reclaim
              /\ entry_count' = entry_count - 1
              /\ ub' = ub \cup (IF dbl THEN {"double_free"} ELSE {})
                          \cup Uaf(m3, {lru_tail})
                          \cup (IF lru_tail = NULL THEN {"null_deref"} ELSE {})
              /\ crashed' = abort
              /\ IF abort
                 THEN /\ ent' = m3
                      /\ UNCHANGED <<lru_tail, mutex, th>>
                 ELSE \E nt \in RdPrev(m3, lru_tail) :
                        /\ lru_tail' = nt
                        /\ ent' = IF nt # NULL THEN [m3 EXCEPT ![nt].next = NULL] ELSE m3
                        /\ mutex' = [mutex EXCEPT ![mutex_group(eh)] = NOBODY]
                        /\ th' = [th EXCEPT ![t] = Evicted(t, ent[ev].live)]
    /\ UNCHANGED <<hash, lru_head, lru_mutex, destroying, calls>>
    /\ UNCHANGED <<max_entries, disk>>
    /\ UNCHANGED outside

\* ---- cache_destroy, cache.c:144-145: entry; the caller has stopped every user ----
DestroyCall(t) ==
    /\ Running /\ ~destroying
    /\ calls < MaxCalls
    /\ calls' = calls + 1
    /\ \A u \in Threads : th[u].pc = "idle"
    /\ destroying' = TRUE
    /\ th' = [th EXCEPT ![t] = [IdleTh EXCEPT !.pc = "d_lock"]]
    /\ UNCHANGED <<ent, hash, lru_head, lru_tail, entry_count, mutex, lru_mutex,
                   crashed, ub, reclaim>>
    /\ UNCHANGED <<max_entries, disk>>
    /\ UNCHANGED outside

\* ---- cache.c:146-148: lock the bucket's shard, e = c->hash[i] ----
DestroyLock(t) ==
    /\ Running
    /\ th[t].pc = "d_lock"
    /\ mutex[mutex_group(th[t].di)] = NOBODY
    /\ mutex' = [mutex EXCEPT ![mutex_group(th[t].di)] = t]
    /\ th' = [th EXCEPT ![t].pc = "d_walk", ![t].e = hash[th[t].di]]
    /\ UNCHANGED <<ent, hash, lru_head, lru_tail, entry_count, lru_mutex,
                   destroying, crashed, ub, reclaim, calls>>
    /\ UNCHANGED <<max_entries, disk>>
    /\ UNCHANGED outside

\* ---- cache.c:149-162: one iteration of the bucket walk: write back, free ----
\* k is the write_result of line 152 when pwrite is called
DestroyStep(t, k) ==
    /\ Running
    /\ th[t].pc = "d_walk"
    /\ th[t].e # NULL
    /\ LET e == th[t].e IN
       \E n \in RdNext(ent, e), d \in RdDirty(ent, e), o \in RdOffset(ent, e),
          abort \in BOOLEAN :
         LET wrote == WriteBack(d)
             dbl == ~ent[e].live
         IN /\ abort => dbl
            /\ crashed' = abort
            /\ ent' = [ent EXCEPT ![e].dirty = IF wrote THEN FALSE ELSE @,
                                  ![e].live = FALSE]
            /\ reclaim' = IF ent[e].live
                          THEN [reclaim EXCEPT ![e] =
                                  [done |-> TRUE, dirty |-> ent[e].dirty,
                                   wb |-> wrote /\ o = ent[e].offset]]
                          ELSE reclaim
            /\ k # PAGE_SIZE => wrote
            /\ disk' = IF wrote THEN Pwrite(disk, o, ent[e].data, k) ELSE disk
            /\ ub' = ub \cup Uaf(ent, {e}) \cup (IF dbl THEN {"double_free"} ELSE {})
            /\ th' = [th EXCEPT ![t].e = n]
    /\ UNCHANGED <<hash, lru_head, lru_tail, entry_count, mutex, lru_mutex, destroying, calls>>
    /\ UNCHANGED max_entries
    /\ UNCHANGED outside

\* the write-back, if any, stores the whole page
DestroyWalk(t) == DestroyStep(t, PAGE_SIZE)

\* the write-back fails or stores part of the page (cache.c:153-157)
DestroyWalkShort(t) == \E k \in ShortWrites : DestroyStep(t, k)

\* ---- cache.c:163-165: end of one bucket ----
DestroyNext(t) ==
    /\ Running
    /\ th[t].pc = "d_walk"
    /\ th[t].e = NULL
    /\ hash' = [hash EXCEPT ![th[t].di] = NULL]
    /\ mutex' = [mutex EXCEPT ![mutex_group(th[t].di)] = NOBODY]
    /\ th' = [th EXCEPT ![t].pc = IF th[t].di + 1 < HASH_SIZE THEN "d_lock" ELSE "d_fini",
                        ![t].di = IF th[t].di + 1 < HASH_SIZE THEN th[t].di + 1 ELSE 0]
    /\ UNCHANGED <<ent, lru_head, lru_tail, entry_count, lru_mutex,
                   destroying, crashed, ub, reclaim, calls>>
    /\ UNCHANGED <<max_entries, disk>>
    /\ UNCHANGED outside

\* ---- cache.c:166-174: destroy the locks, clear head, tail and count ----
DestroyFini(t) ==
    /\ Running
    /\ th[t].pc = "d_fini"
    /\ lru_head' = NULL
    /\ lru_tail' = NULL
    /\ entry_count' = 0
    /\ th' = [th EXCEPT ![t] = Return(t, "none")]
    /\ UNCHANGED <<ent, hash, mutex, lru_mutex, destroying, crashed, ub, reclaim, calls>>
    /\ UNCHANGED <<max_entries, disk>>
    /\ UNCHANGED outside

\* ---- threads sharing one cache_t; the files read and written are whole pages ----
Next ==
    \E t \in Threads :
        \/ (\E o \in Offsets, w \in BOOLEAN : GetCall(t, o, w)) /\ UNCHANGED hist
        \/ GetLock(t) /\ UNCHANGED hist
        \/ GetWalk(t) /\ UNCHANGED hist
        \/ GetHitLock(t) /\ UNCHANGED hist
        \/ GetPromote(t) /\ UNCHANGED hist
        \/ GetAllocFail(t) /\ UNCHANGED hist
        \/ GetAlloc(t) /\ UNCHANGED hist
        \/ GetRead(t) /\ UNCHANGED hist
        \/ GetReadFail(t) /\ UNCHANGED hist
        \/ GetLruLock(t) /\ UNCHANGED hist
        \/ GetLink(t) /\ UNCHANGED hist
        \/ GetUnlock(t) /\ UNCHANGED hist
        \/ EvictCall(t) /\ UNCHANGED hist
        \/ EvictCheck(t) /\ UNCHANGED hist
        \/ EvictLock(t) /\ UNCHANGED hist
        \/ EvictWrite(t) /\ UNCHANGED hist
        \/ EvictFree(t) /\ UNCHANGED hist
        \/ DestroyCall(t) /\ UNCHANGED hist
        \/ DestroyLock(t) /\ UNCHANGED hist
        \/ DestroyWalk(t) /\ UNCHANGED hist
        \/ DestroyNext(t) /\ UNCHANGED hist
        \/ DestroyFini(t) /\ UNCHANGED hist

Spec == Init /\ [][Next]_vars

\* ---- core_run, pseudo_core.c:116-252: one worker and the cache it owns ----
\* the worker's thread
Worker == 1

\* the cache_t of line 118 after cache_init (line 119), for each build-time limit
InitSeq ==
    /\ ent = [s \in Slots |-> NoEntry]
    /\ hash = [b \in Buckets |-> NULL]
    /\ lru_head = NULL
    /\ lru_tail = NULL
    /\ entry_count = 0
    /\ mutex = [g \in Groups |-> NOBODY]
    /\ lru_mutex = NOBODY
    /\ th = [t \in Threads |-> IdleTh]
    /\ destroying = FALSE
    /\ crashed = FALSE
    /\ ub = {}
    /\ reclaim = [s \in Slots |-> NoReclaim]
    /\ calls = 0
    /\ max_entries \in 1..MaxLimit
    /\ disk = [o \in Offsets |-> 0]
    /\ hist = NoHist
    /\ core = [w \in Threads |-> NoCore]
    /\ priv = [w \in Threads |-> [o \in Offsets |-> NoCopy]]
    /\ InitSched
    /\ InitPipe

\* the buffer cache_get hands back in this step, NULL for a failure
Returned(t) ==
    CASE th[t].pc = "g_promote" -> th[t].e
      [] th[t].pc = "g_unlock" -> th[t].ne
      [] OTHER -> NULL

\* the worker's record of the step: the cache as a call finds it, and what
\* cache_get returned (pseudo_core.c:158-164)
Note(t) ==
    hist' =
      IF th[t].pc = "idle" /\ th'[t].pc # "idle"
      THEN [hist EXCEPT !.snap = [ent |-> ent, hash |-> hash, lru_head |-> lru_head,
                                  lru_tail |-> lru_tail, entry_count |-> entry_count],
                        !.step = "idle"]
      ELSE IF th[t].pc \in {"g_promote", "g_unlock", "g_alloc", "g_read"} /\ th'[t].pc = "idle"
      THEN LET r == Returned(t) IN
           [hist EXCEPT
              !.prev = hist.last,
              !.snap = NoSnap,
              !.last = [ok |-> r # NULL, off |-> th[t].off, wr |-> th[t].wr, slot |-> r,
                        data |-> IF r # NULL THEN ent'[r].data ELSE 0,
                        rd |-> IF r # NULL THEN ent'[r].rd ELSE 0,
                        rest |-> IF r # NULL THEN ent'[r].rest ELSE "none",
                        cnt0 |-> hist.snap.entry_count, cnt1 |-> entry_count'],
              !.order = IF r # NULL THEN Touch(@, th[t].off) ELSE @,
              !.step = IF r # NULL THEN "got" ELSE "idle"]
      ELSE hist

\* ---- pseudo_core.c:164: memcpy(buf, page, BLOCK_SIZE), after cache_get returned ----
WorkerCopy(t) ==
    /\ Running /\ ~destroying
    /\ th[t].pc = "idle"
    /\ hist.step = "got"
    /\ hist' = [hist EXCEPT !.step = "copied"]
    /\ UNCHANGED <<ent, hash, lru_head, lru_tail, entry_count, mutex, lru_mutex, th,
                   destroying, crashed, ub, reclaim, calls, max_entries, disk>>
    /\ UNCHANGED outside

\* ---- pseudo_core.c:199-208: the worker writes its result for the page ----
\* ---- straight to the file, not through the cache                      ----
WorkerWrite(t) ==
    /\ Running /\ ~destroying
    /\ th[t].pc = "idle"
    /\ hist.step = "copied"
    /\ disk[hist.last.off] # MaxVer
    /\ disk' = [disk EXCEPT ![hist.last.off] = IF @ = TORN THEN MaxVer ELSE @ + 1]
    /\ hist' = [hist EXCEPT !.step = "idle"]
    /\ UNCHANGED <<ent, hash, lru_head, lru_tail, entry_count, mutex, lru_mutex, th,
                   destroying, crashed, ub, reclaim, calls, max_entries>>
    /\ UNCHANGED outside

\* core_run calls cache_get (line 158) and cache_destroy (line 248), never
\* cache_evict, and copies each page it got before its next call; the file
\* holds whole pages and takes whole pages
NextSeq ==
    \/ hist.step # "got" /\ (\E o \in Offsets, w \in BOOLEAN : GetCall(Worker, o, w))
          /\ Note(Worker)
    \/ GetLock(Worker) /\ Note(Worker)
    \/ GetWalk(Worker) /\ Note(Worker)
    \/ GetHitLock(Worker) /\ Note(Worker)
    \/ GetPromote(Worker) /\ Note(Worker)
    \/ GetAllocFail(Worker) /\ Note(Worker)
    \/ GetAlloc(Worker) /\ Note(Worker)
    \/ GetRead(Worker) /\ Note(Worker)
    \/ GetReadFail(Worker) /\ Note(Worker)
    \/ GetLruLock(Worker) /\ Note(Worker)
    \/ GetLink(Worker) /\ Note(Worker)
    \/ GetUnlock(Worker) /\ Note(Worker)
    \/ EvictCheck(Worker) /\ Note(Worker)
    \/ EvictLock(Worker) /\ Note(Worker)
    \/ EvictWrite(Worker) /\ Note(Worker)
    \/ EvictFree(Worker) /\ Note(Worker)
    \/ WorkerCopy(Worker)
    \/ WorkerWrite(Worker)
    \/ hist.step # "got" /\ DestroyCall(Worker) /\ Note(Worker)
    \/ DestroyLock(Worker) /\ Note(Worker)
    \/ DestroyWalk(Worker) /\ Note(Worker)
    \/ DestroyNext(Worker) /\ Note(Worker)
    \/ DestroyFini(Worker) /\ Note(Worker)

SpecSeq == InitSeq /\ [][NextSeq]_vars

\* ---- the same worker on a file whose reads and writes may come back short ----
\* pread returns 0 at the end of the file and part of a page before it; pwrite
\* fails or stores part of a page (disk full, signal)
NextIO ==
    \/ calls < MaxCallsIO /\ (\E o \in Offsets, w \in BOOLEAN : GetCall(Worker, o, w))
          /\ UNCHANGED hist
    \/ GetLock(Worker) /\ UNCHANGED hist
    \/ GetWalk(Worker) /\ UNCHANGED hist
    \/ GetHitLock(Worker) /\ UNCHANGED hist
    \/ GetPromote(Worker) /\ UNCHANGED hist
    \/ GetAllocFail(Worker) /\ UNCHANGED hist
    \/ GetAlloc(Worker) /\ UNCHANGED hist
    \/ GetRead(Worker) /\ UNCHANGED hist
    \/ GetReadShort(Worker) /\ UNCHANGED hist
    \/ GetReadFail(Worker) /\ UNCHANGED hist
    \/ GetLruLock(Worker) /\ UNCHANGED hist
    \/ GetLink(Worker) /\ UNCHANGED hist
    \/ GetUnlock(Worker) /\ UNCHANGED hist
    \/ EvictCheck(Worker) /\ UNCHANGED hist
    \/ EvictLock(Worker) /\ UNCHANGED hist
    \/ EvictWrite(Worker) /\ UNCHANGED hist
    \/ EvictWriteShort(Worker) /\ UNCHANGED hist
    \/ EvictFree(Worker) /\ UNCHANGED hist
    \/ calls < MaxCallsIO /\ DestroyCall(Worker) /\ UNCHANGED hist
    \/ DestroyLock(Worker) /\ UNCHANGED hist
    \/ DestroyWalk(Worker) /\ UNCHANGED hist
    \/ DestroyWalkShort(Worker) /\ UNCHANGED hist
    \/ DestroyNext(Worker) /\ UNCHANGED hist
    \/ DestroyFini(Worker) /\ UNCHANGED hist

SpecIO == Init /\ [][NextIO]_vars

\* ------------------------------------------------------------------------
\* Reading the structure the way the code does: by following next
\* ------------------------------------------------------------------------

RECURSIVE Walk(_, _, _)
\* the nodes met from s by following next (cache.c:50,70), at most k of them
Walk(m, s, k) == IF s = NULL \/ k = 0 THEN <<>> ELSE <<s>> \o Walk(m, m[s].next, k - 1)

Occ(sq, x) == Cardinality({i \in 1..Len(sq) : sq[i] = x})

Elems(sq) == {sq[i] : i \in 1..Len(sq)}

\* the chain from lru_head; one node more than there are slots shows a cycle
LruWalk == Walk(ent, lru_head, MaxSlots + 1)

\* the chain cache_get walks in bucket b
BucketWalk(b) == Walk(ent, hash[b], MaxSlots + 1)

InHash(s) == \E b \in Buckets : s \in Elems(BucketWalk(b))

\* the pages held in memory: allocated by cache_get and not freed since
Resident == {s \in Slots : ent[s].live}

\* no operation is in progress
Quiescent == (\A t \in Threads : th[t].pc = "idle") /\ ~crashed

\* no operation is in progress and the cache has not been destroyed
Serving == Quiescent /\ ~destroying

\* the owner of the lock thread t is requesting, when that lock is taken
BlockedBy(t) ==
    CASE th[t].pc = "g_lock" -> mutex[MG(t)]
      [] th[t].pc = "e_lock" -> mutex[mutex_group(th[t].eh)]
      [] th[t].pc = "d_lock" -> mutex[mutex_group(th[t].di)]
      [] th[t].pc \in {"g_hit_lock", "g_lru_lock"} -> lru_mutex
      [] OTHER -> NOBODY

RECURSIVE ChainBack(_, _, _)
\* following "is blocked by" from u leads to t within k steps
ChainBack(t, u, k) ==
    /\ k > 0
    /\ BlockedBy(u) # NOBODY
    /\ (BlockedBy(u) = t \/ ChainBack(t, BlockedBy(u), k - 1))

\* t waits for a lock that can only be released after t itself proceeds
WaitsForever(t) == ChainBack(t, t, NThreads)

\* ------------------------------------------------------------------------
\* Properties
\* ------------------------------------------------------------------------

\* C1: once the public operations (get, evict, destroy) have completed,
\* entry_count is at most MAX_CACHE_ENTRIES. entry_count is a size_t: a
\* decrement below zero leaves SIZE_MAX, which is above the limit.
C1_EntryCountBounded == Quiescent => ~CountGT(entry_count, MAX_CACHE_ENTRIES)

\* C2: when no operation is in progress, every resident page is met exactly
\* once on the LRU list, and it is on the LRU list exactly when a bucket of
\* the hash table leads to it.
C2_LruAndHashAgree ==
    Serving => \A s \in Resident : Occ(LruWalk, s) = 1 /\ InHash(s)

\* C3: after every operation the LRU list is well formed: lru_head has no
\* predecessor, lru_tail has no successor, and the chain from lru_head ends
\* (it does not cycle).
C3_LruWellFormed ==
    Quiescent => /\ (lru_head # NULL => ent[lru_head].prev = NULL)
                 /\ (lru_tail # NULL => ent[lru_tail].next = NULL)
                 /\ Len(LruWalk) <= MaxSlots

\* C4: every resident page P is met exactly once on the walk of bucket
\* hash_func(P.offset) % HASH_SIZE.
C4_OncePerBucket ==
    Serving => \A s \in Resident : Occ(BucketWalk(hash_func(ent[s].offset)), s) = 1

\* C5: the cache never holds two pages for one offset (a get of a resident
\* offset is a hit and loads no second entry).
C5_OnePagePerOffset ==
    \A s1, s2 \in Resident : ent[s1].offset = ent[s2].offset => s1 = s2

\* C6: every page that is dirty when eviction or teardown destroys it has had
\* a pwrite of the page at its own offset issued before its memory is freed.
C6_DirtyWrittenBack ==
    \A s \in Slots : (reclaim[s].done /\ reclaim[s].dirty) => reclaim[s].wb

\* a dirty page has been freed, after its write-back
C6_DirtyPageFreed ==
    \E s \in Slots : reclaim[s].done /\ reclaim[s].dirty /\ reclaim[s].wb /\ ~ent[s].live

\* C7: no call ever waits forever for a lock: no thread requests a shard lock
\* or the LRU lock that is held by itself or by a thread that waits, directly
\* or through others, for this thread.
C7_NoWaitForever == \A t \in Threads : ~WaitsForever(t)

\* C8: no thread requests a shard lock while it holds the LRU lock.
C8_ShardBeforeLru ==
    \A t \in Threads : th[t].pc \in {"g_lock", "e_lock", "d_lock"} => lru_mutex # t

\* C9: no thread holds two shard locks at once.
C9_OneShardLock == \A t \in Threads : Cardinality(Holds(t)) <= 1

\* C10: when a miss leaves entry_count above MAX_CACHE_ENTRIES, exactly one
\* page has been evicted when that get returns, and entry_count is then one
\* less than it was right after the insertion.
C10_MissEvictsOne ==
    \A t \in Threads :
        (th[t].pc = "g_unlock" /\ NeedEvict(th[t].ins))
            => (entry_count = th[t].ins - 1 /\ th[t].evd = 1)

\* ---- main and core_run, pseudo_core.c:116-252, 280-297: the workers, each ----
\* ---- with a cache_t of its own (line 118), on one file descriptor       ----
\* priv[w][o] is the version of the page of offset o that worker w's cache
\* holds, NoCopy when it holds none: a hit returns the bytes the entry holds
\* (cache.c:50-68), a miss fills a new entry from the file (cache.c:73-87)
cacheVars == <<ent, hash, lru_head, lru_tail, entry_count, mutex, lru_mutex, th,
               destroying, crashed, ub, reclaim, calls, max_entries, hist>>

\* ---- pseudo_core.c:147: the block of the worker's own segment at position idx ----
OwnOffset(w, idx) == ((w - 1) * SegBlocks + (idx % SegBlocks)) * PAGE_SIZE

\* the offsets worker w has in its cache
Cached(w) == {o \in Offsets : priv[w][o] # NoCopy}

\* ---- scheduler_get_migrated_task, scheduler.c:98-120: a block another worker ----
\* ---- reported; 0 stands for none (pseudo_core.c:153)                        ----
Migratable(w) == {o \in Offsets \ {0} : \E u \in Threads \ {w} : o \in Cached(u)}

\* ---- pseudo_core.c:131-155: choose the block of this iteration ----
CorePick(w) ==
    /\ core[w].pc = "pick"
    /\ \E m \in Migratable(w) \cup {0} :
         core' = [core EXCEPT ![w].pc = "get",
                              ![w].idx = (@ + 1) % SegBlocks,
                              ![w].off = IF m # 0 THEN m ELSE OwnOffset(w, core[w].idx),
                              ![w].buf = NoCopy]
    /\ UNCHANGED <<priv, disk, cacheVars, schedVars, pipeVars>>

\* ---- pseudo_core.c:158 with a page returned: cache_get(&cache, c->fd, offset, 1) ----
\* a miss that takes the cache over its limit evicts another page, which is
\* dirty as every get of the worker has write intent, and writes it back
CoreGet(w) ==
    /\ core[w].pc = "get"
    /\ LET o == core[w].off IN
       IF o \in Cached(w)
       THEN UNCHANGED <<priv, disk>>
       ELSE IF Cardinality(Cached(w)) + 1 > MAX_CACHE_ENTRIES
       THEN \E v \in Cached(w) :
              /\ priv' = [priv EXCEPT ![w][o] = disk[o], ![w][v] = NoCopy]
              /\ disk' = Pwrite(disk, v, priv[w][v], PAGE_SIZE)
       ELSE /\ priv' = [priv EXCEPT ![w][o] = disk[o]]
            /\ UNCHANGED disk
    /\ core' = [core EXCEPT ![w].pc = "copy"]
    /\ UNCHANGED <<cacheVars, schedVars, pipeVars>>

\* ---- pseudo_core.c:159-163: cache_get returned NULL (malloc or pread failed) ----
CoreGetFail(w) ==
    /\ core[w].pc = "get"
    /\ core[w].off \notin Cached(w)
    /\ core' = [core EXCEPT ![w].pc = "pick"]
    /\ UNCHANGED <<priv, disk, cacheVars, schedVars, pipeVars>>

\* ---- pseudo_core.c:164: memcpy(buf, page, BLOCK_SIZE) ----
CoreCopy(w) ==
    /\ core[w].pc = "copy"
    /\ core' = [core EXCEPT ![w].pc = "write", ![w].buf = priv[w][core[w].off]]
    /\ UNCHANGED <<priv, disk, cacheVars, schedVars, pipeVars>>

\* ---- pseudo_core.c:199-208: cs > 0, the result goes straight to the file ----
CoreWrite(w) ==
    /\ core[w].pc = "write"
    /\ disk[core[w].off] # MaxVer
    /\ disk' = [disk EXCEPT ![core[w].off] = IF @ = TORN THEN MaxVer ELSE @ + 1]
    /\ core' = [core EXCEPT ![w].pc = "pick"]
    /\ UNCHANGED <<priv, cacheVars, schedVars, pipeVars>>

\* ---- pseudo_core.c:209-212: compression failed, nothing is written ----
CoreSkip(w) ==
    /\ core[w].pc = "write"
    /\ core' = [core EXCEPT ![w].pc = "pick"]
    /\ UNCHANGED <<priv, disk, cacheVars, schedVars, pipeVars>>

NextCores ==
    \E w \in Threads :
        \/ CorePick(w)
        \/ CoreGet(w)
        \/ CoreGetFail(w)
        \/ CoreCopy(w)
        \/ CoreWrite(w)
        \/ CoreSkip(w)

SpecCores == Init /\ [][NextCores]_vars

\* ---- scheduler.c: the per-core queues of work units ----
\* the positions of queue q, and the position of block b's unit (0 when absent)
Units(q) == 1..Len(q)
IndexOf(q, b) == IF \E i \in Units(q) : q[i].block = b
                 THEN CHOOSE i \in Units(q) : q[i].block = b /\ \A j \in 1..(i - 1) : q[j].block # b
                 ELSE 0

\* the hot counter of block b's unit in queue q, 0 when it has no unit
HotOf(q, b) == IF IndexOf(q, b) = 0 THEN 0 ELSE q[IndexOf(q, b)].hot

\* the loop of scheduler.c:44-48 with <= for <: on ties the last unit instead of the first
RECURSIVE MinHotScanLast(_, _, _)
MinHotScanLast(q, i, m) ==
    IF i > Len(q) THEN m
    ELSE MinHotScanLast(q, i + 1, IF q[i].hot <= q[m].hot THEN i ELSE m)

\* ---- scheduler.c:44-48: the loop over the units from position i on, m the ----
\* ---- position of the smallest hot so far                                 ----
RECURSIVE MinHotScan(_, _, _)
MinHotScan(q, i, m) ==
    IF i > Len(q) THEN m
    ELSE MinHotScan(q, i + 1, IF q[i].hot < q[m].hot THEN i ELSE m)

\* ---- scheduler.c:43-48: min_hot_idx, the first unit with the smallest hot ----
MinHotIdx(q) == MinHotScan(q, 2, 1)

\* ---- scheduler.c:28-52: the queue after block b is reported at time t ----
Reported(q, b, t) ==
    LET i == IndexOf(q, b)
        u == [block |-> b, hot |-> 1, last_seen |-> t]
    IN  IF i # 0 THEN [q EXCEPT ![i].hot = @ + 1, ![i].last_seen = t]
        ELSE IF Len(q) < MAX_QUEUE_SIZE THEN Append(q, u)
        ELSE [q EXCEPT ![MinHotIdx(q)] = u]

\* ---- scheduler_report_access, scheduler.c:25-54, under q->mutex ----
ReportAccess(w, b) ==
    /\ mig[w].pc = "idle"
    /\ HotOf(queues[w], b) < MaxHot
    /\ queues' = [queues EXCEPT ![w] = Reported(@, b, now)]
    /\ seen' = IF w \in DOMAIN seen
               THEN [seen EXCEPT ![w][b] = HotOf(Reported(queues[w], b, now), b)]
               ELSE seen
    /\ given' = IF b \in DOMAIN given
                THEN [given EXCEPT ![b] = IF @ = w THEN 0 ELSE @]
                ELSE given
    /\ UNCHANGED <<now, mig, threshold>>
    /\ UNCHANGED <<cacheVars, disk, core, priv, pipeVars>>

\* the cores 0..CORES-1 of scheduler.c:6, and those other than w
\* (scheduler.c:59-60, 83-84)
Cores == DOMAIN queues
Others(w) == Cores \ {w}

RECURSIVE SumCount(_)
SumCount(S) == IF S = {} THEN 0
               ELSE LET i == CHOOSE i \in S : TRUE IN Len(queues[i]) + SumCount(S \ {i})

\* ---- scheduler_should_migrate, scheduler.c:57-71: the load of the other cores ----
ShouldOthers(w) ==
    /\ mig[w].pc = "idle"
    /\ Cardinality(Cores) > 1
    /\ mig' = [mig EXCEPT ![w] = [NoMig EXCEPT !.pc = "own",
                                  !.avg = SumCount(Others(w)) \div (Cardinality(Cores) - 1)]]
    /\ UNCHANGED <<queues, now, seen, given, threshold>>
    /\ UNCHANGED <<cacheVars, disk, core, priv, pipeVars>>

\* ---- scheduler.c:71 with CORES = 1: total / (CORES - 1) divides by zero, which ----
\* ---- is undefined: the process is killed by SIGFPE, or avg is some value       ----
ShouldDivZero(w) ==
    /\ mig[w].pc = "idle"
    /\ Cardinality(Cores) = 1
    /\ \/ mig' = [mig EXCEPT ![w] = [NoMig EXCEPT !.pc = "fpe"]]
       \/ \E a \in {0, MAX_QUEUE_SIZE + MIGRATION_THRESHOLD + 1} :
            mig' = [mig EXCEPT ![w] = [NoMig EXCEPT !.pc = "own", !.avg = a]]
    /\ UNCHANGED <<queues, now, seen, given, threshold>>
    /\ UNCHANGED <<cacheVars, disk, core, priv, pipeVars>>

\* the comparison of scheduler.c:76 with <= for <
ShouldMigrateLoose(cur, avg) == cur <= avg - threshold

\* ---- scheduler.c:76: the value scheduler_should_migrate returns ----
ShouldMigrate(cur, avg) == cur < avg - threshold

\* ---- scheduler.c:72-76 and pseudo_core.c:151: the own load, and the decision ----
ShouldOwn(w) ==
    /\ mig[w].pc = "own"
    /\ mig' = [mig EXCEPT ![w].pc = IF ShouldMigrate(Len(queues[w]), mig[w].avg)
                                    THEN "scan" ELSE "idle",
                          ![w].avg = 0]
    /\ UNCHANGED <<queues, now, seen, given, threshold>>
    /\ UNCHANGED <<cacheVars, disk, core, priv, pipeVars>>

\* scheduler.c:91, 104: the unit was seen less than ten seconds ago
Fresh(u) == now - u.last_seen < FreshSeconds

\* ---- scheduler.c:80-97: the most loaded other core, the first one on ties ----
MaxLoadId(w) ==
    IF \A i \in Others(w) : Len(queues[i]) = 0 THEN 0
    ELSE CHOOSE i \in Others(w) :
           /\ \A j \in Others(w) : Len(queues[j]) <= Len(queues[i])
           /\ \A j \in Others(w) : j < i => Len(queues[j]) < Len(queues[i])

\* ---- scheduler_get_migrated_task, scheduler.c:79-98: the scan of the other queues ----
MigScan(w) ==
    /\ mig[w].pc = "scan"
    /\ LET id == MaxLoadId(w)
           load == IF id = 0 THEN 0 ELSE Len(queues[id])
       IN  mig' = [mig EXCEPT ![w] = IF id # 0 /\ load > threshold
                                     THEN [NoMig EXCEPT !.pc = "take", !.id = id]
                                     ELSE [NoMig EXCEPT !.pc = "ret"]]
    /\ UNCHANGED <<queues, now, seen, given, threshold>>
    /\ UNCHANGED <<cacheVars, disk, core, priv, pipeVars>>

\* the search of scheduler.c:101-108 without the comparison of hot: the first
\* fresh unit
FirstFreshIdx(q) ==
    IF \E i \in Units(q) : Fresh(q[i])
    THEN CHOOSE i \in Units(q) : Fresh(q[i]) /\ \A j \in 1..(i - 1) : ~Fresh(q[j])
    ELSE 0

\* ---- scheduler.c:101-108: the first fresh unit with the largest hot, 0 for none ----
HotIdx(q) ==
    IF \E i \in Units(q) : Fresh(q[i])
    THEN CHOOSE i \in Units(q) :
           /\ Fresh(q[i])
           /\ \A j \in Units(q) : Fresh(q[j]) => q[j].hot <= q[i].hot
           /\ \A j \in 1..(i - 1) : Fresh(q[j]) => q[j].hot < q[i].hot
    ELSE 0

\* scheduler.c:112-115: the queue without the unit at position i
Without(q, i) == [j \in 1..(Len(q) - 1) |-> IF j < i THEN q[j] ELSE q[j + 1]]

\* ---- scheduler.c:99-124: the hottest unit of that core leaves its queue ----
MigTake(w) ==
    /\ mig[w].pc = "take"
    /\ LET id == mig[w].id
           i == HotIdx(queues[id])
       IN  IF i # 0
           THEN /\ queues' = [queues EXCEPT ![id] = Without(@, i)]
                /\ seen' = IF id \in DOMAIN seen
                           THEN [seen EXCEPT ![id][queues[id][i].block] = 0]
                           ELSE seen
                /\ given' = IF queues[id][i].block \in DOMAIN given
                            THEN [given EXCEPT ![queues[id][i].block] = w]
                            ELSE given
                /\ mig' = [mig EXCEPT ![w] = [NoMig EXCEPT !.pc = "ret", !.id = id,
                                                           !.m = queues[id][i].block]]
           ELSE /\ mig' = [mig EXCEPT ![w] = [NoMig EXCEPT !.pc = "ret"]]
                /\ UNCHANGED <<queues, seen, given>>
    /\ UNCHANGED <<now, threshold>>
    /\ UNCHANGED <<cacheVars, disk, core, priv, pipeVars>>

\* ---- pseudo_core.c:152-153: m = scheduler_get_migrated_task(c->id); if (m) ... ----
MigReturn(w) ==
    /\ mig[w].pc = "ret"
    /\ mig' = [mig EXCEPT ![w] = NoMig]
    /\ UNCHANGED <<queues, now, seen, given, threshold>>
    /\ UNCHANGED <<cacheVars, disk, core, priv, pipeVars>>

\* time(NULL) moves on by a second
Tick ==
    /\ now < MaxTime
    /\ now' = now + 1
    /\ UNCHANGED <<queues, mig, seen, given, threshold>>
    /\ UNCHANGED <<cacheVars, disk, core, priv, pipeVars>>

NextSched ==
    \/ \E w \in Threads :
          \/ \E b \in Blocks : ReportAccess(w, b)
          \/ ShouldOthers(w)
          \/ ShouldOwn(w)
          \/ MigScan(w)
          \/ MigTake(w)
          \/ MigReturn(w)
    \/ Tick

SpecSched == Init /\ [][NextSched]_vars

\* ---- the scheduler calls one at a time, for CORES = 1..MaxCores ----
InitSchedSeq ==
    /\ ent = [s \in Slots |-> NoEntry]
    /\ hash = [b \in Buckets |-> NULL]
    /\ lru_head = NULL
    /\ lru_tail = NULL
    /\ entry_count = 0
    /\ mutex = [g \in Groups |-> NOBODY]
    /\ lru_mutex = NOBODY
    /\ th = [t \in Threads |-> IdleTh]
    /\ destroying = FALSE
    /\ crashed = FALSE
    /\ ub = {}
    /\ reclaim = [s \in Slots |-> NoReclaim]
    /\ calls = 0
    /\ max_entries = MAX_CACHE_ENTRIES
    /\ disk = [o \in Offsets |-> 0]
    /\ hist = NoHist
    /\ core = [w \in Threads |-> NoCore]
    /\ priv = [w \in Threads |-> [o \in Offsets |-> NoCopy]]
    /\ \E n \in 1..MaxCores : InitSchedOn(1..n)
    /\ seen = <<>>
    /\ given = [b \in Blocks |-> 0]
    /\ threshold \in 0..MIGRATION_THRESHOLD
    /\ InitPipe

\* w is a core of the build, and no other core is inside a scheduler call
Alone(w) == w \in Cores /\ \A v \in Others(w) : mig[v].pc = "idle"

\* the reports the units of the queues account for
RECURSIVE SumHot(_, _)
SumHot(q, i) == IF i > Len(q) THEN 0 ELSE q[i].hot + SumHot(q, i + 1)
RECURSIVE Load(_)
Load(S) == IF S = {} THEN 0
           ELSE LET i == CHOOSE i \in S : TRUE IN SumHot(queues[i], 1) + Load(S \ {i})

NextSchedSeq ==
    \/ \E w \in 1..MaxCores :
          \/ Alone(w) /\ Load(Cores) < MaxLoad /\ \E b \in Blocks : ReportAccess(w, b)
          \/ Alone(w) /\ ShouldOthers(w)
          \/ Alone(w) /\ ShouldDivZero(w)
          \/ Alone(w) /\ ShouldOwn(w)
          \/ Alone(w) /\ MigScan(w)
          \/ Alone(w) /\ MigTake(w)
          \/ Alone(w) /\ MigReturn(w)
    \/ Tick

SpecSchedSeq == InitSchedSeq /\ [][NextSchedSeq]_vars

\* ---- the calls of scheduler.h interleaved, for CORES = 1..MaxCores: a core ----
\* ---- reports, or asks for a unit as scheduler_balance_load does (l.146)   ----
\* ---- scheduler.c:79-82: scheduler_get_migrated_task(w) is entered ----
MigCall(w) ==
    /\ w \in Cores
    /\ mig[w].pc = "idle"
    /\ mig' = [mig EXCEPT ![w] = [NoMig EXCEPT !.pc = "scan"]]
    /\ UNCHANGED <<queues, now, seen, given, threshold>>
    /\ UNCHANGED <<cacheVars, disk, core, priv, pipeVars>>

NextSchedApi ==
    \/ \E w \in 1..MaxCores :
          \/ w \in Cores /\ Load(Cores) < MaxLoadApi /\ \E b \in Blocks : ReportAccess(w, b)
          \/ MigCall(w)
          \/ w \in Cores /\ MigScan(w)
          \/ w \in Cores /\ MigTake(w)
          \/ w \in Cores /\ MigReturn(w)
    \/ Tick

\* scheduler.c:6 with CORES = MaxCores and the threshold of config.h
InitSchedApi ==
    /\ ent = [s \in Slots |-> NoEntry]
    /\ hash = [b \in Buckets |-> NULL]
    /\ lru_head = NULL
    /\ lru_tail = NULL
    /\ entry_count = 0
    /\ mutex = [g \in Groups |-> NOBODY]
    /\ lru_mutex = NOBODY
    /\ th = [t \in Threads |-> IdleTh]
    /\ destroying = FALSE
    /\ crashed = FALSE
    /\ ub = {}
    /\ reclaim = [s \in Slots |-> NoReclaim]
    /\ calls = 0
    /\ max_entries = MAX_CACHE_ENTRIES
    /\ disk = [o \in Offsets |-> 0]
    /\ hist = NoHist
    /\ core = [w \in Threads |-> NoCore]
    /\ priv = [w \in Threads |-> [o \in Offsets |-> NoCopy]]
    /\ InitSchedOn(1..MaxCores)
    /\ seen = <<>>
    /\ given = <<>>
    /\ threshold = MIGRATION_THRESHOLD
    /\ InitPipe

SpecSchedApi == InitSchedApi /\ [][NextSchedApi]_vars

\* ---- ring_cache.c: the ring log, one call at a time ----
\* ---- ring_cache_init, ring_cache.c:10-18, called by worker w ----
RingInitDo(w) ==
    /\ ring_buffer' = w
    /\ ring_live' = ring_live \cup {w}
    /\ ring_pos' = 0
    /\ ring_mutex' = NoRingMutex

\* the advance of ring_cache.c:29 without the modulo
RingAdvanceNoWrap(pos) == pos + PAGE_SIZE

\* ---- ring_cache.c:29: ring_pos = (ring_pos + BLOCK_SIZE) % RING_SIZE ----
RingAdvance(pos) == (pos + PAGE_SIZE) % RING_SIZE

\* ---- ring_cache.c:27-32: the cursor after a page is offered at pos ----
RingAfter(pos) == IF pos + PAGE_SIZE <= RING_SIZE THEN RingAdvance(pos) ELSE pos

\* ---- ring_cache_destroy, ring_cache.c:36-41 ----
RingDestroyDo ==
    /\ ring_mutex' = [owner |-> NOBODY, ok |-> FALSE]
    /\ ring_live' = ring_live \ {ring_buffer}
    /\ ring_buffer' = NULL
    /\ ring_pos' = 0

\* ---- core_run, pseudo_core.c:116-252 and pseudo_core_daemon.c:98-144: the ----
\* ---- loop of one worker                                                  ----
\* what compress_page returns (compress.c:5-12): -1 for an error of the
\* compressor, else the size of the compressed page
CompSizes == {0 - 1, 1000, PAGE_SIZE \div 2, 3000, 3500, PAGE_SIZE}

\* ---- determine_compression_level, pseudo_core.c:85-93; the threshold of ----
\* ---- config.h:12 is 0.5: ratio > 0.5 is 2 * compressed > original        ----
determine_compression_level(original_size, compressed_size) ==
    IF original_size = 0 THEN COMPRESSION_MIN_LVL
    ELSE IF 2 * compressed_size > original_size THEN COMPRESSION_MAX_LVL
    ELSE COMPRESSION_MIN_LVL

iterRest == <<cacheVars, disk, core, priv, schedVars, sup, boot, v2Vars>>

\* ---- pseudo_core.c:118-125, pseudo_core_daemon.c:100-102: cache_init, ring_cache_init ----
IterStart ==
    /\ it.pc = "start"
    /\ it' = [it EXCEPT !.pc = "get"]
    /\ RingInitDo(Worker)
    /\ UNCHANGED <<ring_ub, rt, iterRest>>

\* ---- pseudo_core.c:158-163: cache_get returned NULL: log, continue ----
\* ---- pseudo_core_daemon.c:112-118: log, nanosleep, continue         ----
IterGetFail ==
    /\ it.pc = "get"
    /\ it' = [it EXCEPT !.pc = "top", !.failed = TRUE,
                        !.done = IF it.prog = "daemon" THEN {"sleep"} ELSE {}]
    /\ UNCHANGED <<ringVars, iterRest>>

\* ---- pseudo_core.c:158-196, pseudo_core_daemon.c:112-125: a page, copied and changed ----
IterGetOk ==
    /\ it.pc = "get"
    /\ it' = [it EXCEPT !.pc = "compress"]
    /\ UNCHANGED <<ringVars, iterRest>>

\* ---- pseudo_core.c:200-201: the level, then compress_page ----
\* ---- pseudo_core_daemon.c:129: compress_page at level 1   ----
IterCompress ==
    /\ it.pc = "compress"
    /\ \E c \in CompSizes :
         it' = [it EXCEPT !.pc = "write", !.cs = c, !.done = @ \cup {"compress"},
                          !.lvl = IF it.prog = "core"
                                  THEN determine_compression_level(PAGE_SIZE, it.prev)
                                  ELSE 1]
    /\ UNCHANGED <<ringVars, iterRest>>

\* ---- pseudo_core.c:202-212: pwrite(c->fd, cmp, BLOCK_SIZE, offset) ----
\* ---- pseudo_core_daemon.c:130-132: pwrite(c->fd, cmp, cs, offset)  ----
IterWrite ==
    /\ it.pc = "write"
    /\ it' = IF it.cs > 0
             THEN [it EXCEPT !.pc = "ring", !.done = @ \cup {"write"},
                             !.wlen = IF it.prog = "core" THEN PAGE_SIZE ELSE it.cs,
                             !.prev = IF it.prog = "core" THEN it.cs ELSE @]
             ELSE [it EXCEPT !.pc = "ring"]
    /\ UNCHANGED <<ringVars, iterRest>>

\* ---- pseudo_core.c:214, pseudo_core_daemon.c:134: cache_to_ring(offset, buf) ----
IterRing ==
    /\ it.pc = "ring"
    /\ it' = [it EXCEPT !.pc = "sleep", !.done = @ \cup {"ring"}]
    /\ ring_pos' = IF ring_buffer = NULL THEN ring_pos ELSE RingAfter(ring_pos)
    /\ UNCHANGED <<ring_buffer, ring_mutex, ring_live, ring_ub, rt, iterRest>>

\* ---- pseudo_core.c:222-244, pseudo_core_daemon.c:137-138: nanosleep ----
IterSleep ==
    /\ it.pc = "sleep"
    /\ it' = [it EXCEPT !.pc = "top", !.done = @ \cup {"sleep"}]
    /\ UNCHANGED <<ringVars, iterRest>>

\* ---- pseudo_core.c:130, pseudo_core_daemon.c:104: the loop goes on ----
IterNext ==
    /\ it.pc = "top"
    /\ it' = [it EXCEPT !.pc = "get", !.cs = 0, !.wlen = 0, !.failed = FALSE, !.done = {}]
    /\ UNCHANGED <<ringVars, iterRest>>

\* ---- pseudo_core.c:247-251, pseudo_core_daemon.c:141-143: the loop ends ----
IterStop ==
    /\ it.pc = "top"
    /\ it' = [it EXCEPT !.pc = "stopped"]
    /\ RingDestroyDo
    /\ UNCHANGED <<ring_ub, rt, iterRest>>

InitIter ==
    /\ ent = [s \in Slots |-> NoEntry]
    /\ hash = [b \in Buckets |-> NULL]
    /\ lru_head = NULL
    /\ lru_tail = NULL
    /\ entry_count = 0
    /\ mutex = [g \in Groups |-> NOBODY]
    /\ lru_mutex = NOBODY
    /\ th = [t \in Threads |-> IdleTh]
    /\ destroying = FALSE
    /\ crashed = FALSE
    /\ ub = {}
    /\ reclaim = [s \in Slots |-> NoReclaim]
    /\ calls = 0
    /\ max_entries = MAX_CACHE_ENTRIES
    /\ disk = [o \in Offsets |-> 0]
    /\ hist = NoHist
    /\ core = [w \in Threads |-> NoCore]
    /\ priv = [w \in Threads |-> [o \in Offsets |-> NoCopy]]
    /\ InitSched
    /\ it \in {NoIter(p) : p \in Progs}
    /\ InitRing
    /\ sup = NoSup
    /\ boot = NoBoot
    /\ InitV2

NextIter ==
    \/ IterStart
    \/ IterGetFail
    \/ IterGetOk
    \/ IterCompress
    \/ IterWrite
    \/ IterRing
    \/ IterSleep
    \/ IterNext
    \/ IterStop

SpecIter == InitIter /\ [][NextIter]_vars

\* ---- ring_cache.c under the workers of main (pseudo_core.c:280-299): every ----
\* ---- core_run calls ring_cache_init, appends in its loop, and calls       ----
\* ---- ring_cache_destroy when its loop ends                                ----
ringRest == <<cacheVars, disk, core, priv, schedVars, it, sup, boot, v2Vars>>

\* ---- pseudo_core.c:120: ring_cache_init() of worker w (ring_cache.c:10-18) ----
RingInit(w) ==
    /\ rt[w].pc = "new"
    /\ RingInitDo(w)
    /\ rt' = [rt EXCEPT ![w].pc = "run"]
    /\ UNCHANGED <<ring_ub, ringRest>>

\* ---- ring_cache.c:21-24: the test of data and ring_buffer, before the lock ----
RingCheck(w) ==
    /\ rt[w].pc = "run"
    /\ rt' = [rt EXCEPT ![w].pc = IF ring_buffer = NULL THEN "run" ELSE "lock"]
    /\ UNCHANGED <<ring_pos, ring_buffer, ring_mutex, ring_live, ring_ub, ringRest>>

\* ---- ring_cache.c:25: pthread_mutex_lock(&ring_mutex); on a destroyed mutex ----
\* ---- the call is undefined and returns without the lock                    ----
RingLock(w) ==
    /\ rt[w].pc = "lock"
    /\ ring_mutex.ok => ring_mutex.owner = NOBODY
    /\ ring_mutex' = IF ring_mutex.ok THEN [ring_mutex EXCEPT !.owner = w] ELSE ring_mutex
    /\ rt' = [rt EXCEPT ![w].pc = "copy"]
    /\ UNCHANGED <<ring_pos, ring_buffer, ring_live, ring_ub, ringRest>>

\* ---- ring_cache.c:27-32: memcpy to ring_buffer + ring_pos, the cursor moves on ----
RingCopy(w) ==
    /\ rt[w].pc = "copy"
    /\ ring_ub' = (ring_ub \/ ring_buffer \notin ring_live)
    /\ ring_pos' = RingAfter(ring_pos)
    /\ rt' = [rt EXCEPT ![w].pc = "unlock"]
    /\ UNCHANGED <<ring_buffer, ring_mutex, ring_live, ringRest>>

\* ---- ring_cache.c:33: pthread_mutex_unlock(&ring_mutex) ----
RingUnlock(w) ==
    /\ rt[w].pc = "unlock"
    /\ ring_mutex' = [ring_mutex EXCEPT !.owner = IF @ = w THEN NOBODY ELSE @]
    /\ rt' = [rt EXCEPT ![w].pc = "run"]
    /\ UNCHANGED <<ring_pos, ring_buffer, ring_live, ring_ub, ringRest>>

\* ---- pseudo_core.c:247: ring_cache_destroy() of worker w (ring_cache.c:36-41) ----
RingDestroy(w) ==
    /\ rt[w].pc = "run"
    /\ RingDestroyDo
    /\ rt' = [rt EXCEPT ![w].pc = "done"]
    /\ UNCHANGED <<ring_ub, ringRest>>

NextRing ==
    \E w \in Threads :
        \/ RingInit(w)
        \/ RingCheck(w)
        \/ RingLock(w)
        \/ RingCopy(w)
        \/ RingUnlock(w)
        \/ RingDestroy(w)

SpecRing == InitIter /\ [][NextRing]_vars

\* ---- termination: one worker of pseudo_core.c from pthread_create to the ----
\* ---- join, with signal_handler (l.255-259) clearing global_running       ----
stopRest == <<ent, hash, lru_head, lru_tail, entry_count, mutex, lru_mutex, th,
              destroying, crashed, ub, reclaim, calls, max_entries, core, priv,
              schedVars, it, boot, v2Vars>>

\* ---- pseudo_core.c:255-259: signal_handler ----
StopSignal ==
    /\ sup.global_running
    /\ sup' = [sup EXCEPT !.global_running = FALSE]
    /\ UNCHANGED <<stopRest, disk, hist, ringVars>>

\* ---- pseudo_core.c:285-290: a later pthread_create fails, main clears ----
\* ---- global_running and the running flag of the workers it started   ----
StopCreateFail ==
    /\ sup.global_running /\ sup.running
    /\ sup' = [sup EXCEPT !.global_running = FALSE, !.running = FALSE]
    /\ UNCHANGED <<stopRest, disk, hist, ringVars>>

\* ---- pseudo_core.c:116-128: the worker starts: cache_init, ring_cache_init ----
StopStart ==
    /\ sup.pc = "start"
    /\ RingInitDo(Worker)
    /\ sup' = [sup EXCEPT !.pc = "test"]
    /\ UNCHANGED <<stopRest, disk, hist, ring_ub, rt>>

\* ---- pseudo_core.c:130: both flags are set, the next iteration begins ----
StopTestGo ==
    /\ sup.pc = "test"
    /\ sup.running /\ sup.global_running
    /\ calls + 1 < MaxCalls
    /\ sup' = [sup EXCEPT !.pc = "body", !.at = calls]
    /\ UNCHANGED <<stopRest, disk, hist, ringVars>>

\* ---- pseudo_core.c:130, 247: a flag is clear, the loop ends; ring_cache_destroy ----
StopTestLeave ==
    /\ sup.pc = "test"
    /\ ~(sup.running /\ sup.global_running)
    /\ RingDestroyDo
    /\ sup' = [sup EXCEPT !.pc = "leave", !.at = calls]
    /\ UNCHANGED <<stopRest, disk, hist, ring_ub, rt>>

\* ---- pseudo_core.c:131-158: the offset of the iteration, cache_get(.., 1) ----
StopGet ==
    /\ sup.pc = "body" /\ calls = sup.at
    /\ \E o \in Offsets : GetCall(Worker, o, TRUE)
    /\ Note(Worker)

\* ---- pseudo_core.c:159-244: the rest of the iteration after cache_get has ----
\* ---- returned and the page, if any, was copied: the pwrite of l.203, the  ----
\* ---- sleep; the file keeps versions up to MaxVer                          ----
StopIterEnd ==
    /\ Running
    /\ sup.pc = "body" /\ calls # sup.at
    /\ th[Worker].pc = "idle"
    /\ hist.step \in {"idle", "copied"}
    /\ disk' = IF hist.step = "copied"
               THEN [disk EXCEPT ![hist.last.off] =
                       IF @ = TORN THEN MaxVer ELSE IF @ < MaxVer THEN @ + 1 ELSE @]
               ELSE disk
    /\ hist' = [hist EXCEPT !.step = "idle"]
    /\ sup' = [sup EXCEPT !.pc = "test"]
    /\ UNCHANGED <<stopRest, ringVars>>

\* ---- pseudo_core.c:248: cache_destroy(&cache, c->fd) ----
StopDestroy ==
    /\ sup.pc = "leave" /\ calls = sup.at
    /\ DestroyCall(Worker)
    /\ Note(Worker)

\* ---- pseudo_core.c:249-251: the worker returns ----
StopExit ==
    /\ Running
    /\ sup.pc = "leave" /\ calls # sup.at
    /\ th[Worker].pc = "idle"
    /\ sup' = [sup EXCEPT !.pc = "exited"]
    /\ UNCHANGED <<stopRest, disk, hist, ringVars>>

\* ---- pseudo_core.c:302-304: pthread_join returns ----
StopJoin ==
    /\ sup.pc = "exited" /\ ~sup.joined
    /\ sup' = [sup EXCEPT !.joined = TRUE]
    /\ UNCHANGED <<stopRest, disk, hist, ringVars>>

\* the steps of the worker's thread and of main's join
StopWorker ==
    \/ StopStart
    \/ StopTestGo
    \/ StopTestLeave
    \/ StopGet
    \/ GetLock(Worker) /\ Note(Worker)
    \/ GetWalk(Worker) /\ Note(Worker)
    \/ GetHitLock(Worker) /\ Note(Worker)
    \/ GetPromote(Worker) /\ Note(Worker)
    \/ GetAllocFail(Worker) /\ Note(Worker)
    \/ GetAlloc(Worker) /\ Note(Worker)
    \/ GetRead(Worker) /\ Note(Worker)
    \/ GetReadFail(Worker) /\ Note(Worker)
    \/ GetLruLock(Worker) /\ Note(Worker)
    \/ GetLink(Worker) /\ Note(Worker)
    \/ GetUnlock(Worker) /\ Note(Worker)
    \/ EvictCheck(Worker) /\ Note(Worker)
    \/ EvictLock(Worker) /\ Note(Worker)
    \/ EvictWrite(Worker) /\ Note(Worker)
    \/ EvictFree(Worker) /\ Note(Worker)
    \/ WorkerCopy(Worker)
    \/ StopIterEnd
    \/ StopDestroy
    \/ DestroyLock(Worker) /\ Note(Worker)
    \/ DestroyWalk(Worker) /\ Note(Worker)
    \/ DestroyNext(Worker) /\ Note(Worker)
    \/ DestroyFini(Worker) /\ Note(Worker)
    \/ StopExit
    \/ StopJoin

NextStop ==
    \/ StopSignal
    \/ StopCreateFail
    \/ StopWorker

\* the threads are scheduled: a step of the worker that stays possible is taken
SpecStop == Init /\ [][NextStop]_vars /\ WF_vars(StopWorker)

\* ---- main and its workers: the life of the scheduler's queue locks ----
bootRest == <<cacheVars, disk, core, priv, schedVars, it, ringVars, sup, v2Vars>>
Mains == {"pseudo_core.c", "part_011"}

\* ---- main up to its creation loop: pseudo_core.c:261-279 makes no call of ----
\* ---- the scheduler; unnamed/part_011:162-179 calls scheduler_init (l.175), ----
\* ---- scheduler.c:17-23                                                    ----
BootMain(p) ==
    /\ boot.pc = "exec"
    /\ boot' = [boot EXCEPT !.prog = p, !.pc = "create",
                            !.locks = IF p = "part_011" THEN "initialised" ELSE @]
    /\ UNCHANGED bootRest

\* ---- pseudo_core.c:281-285, part_011:181-185: pthread_create succeeds ----
BootCreate ==
    /\ boot.pc = "create" /\ boot.i <= MaxCores
    /\ boot' = [boot EXCEPT !.w[boot.i] = [pc |-> "test", running |-> TRUE, n |-> 0],
                            !.i = @ + 1]
    /\ UNCHANGED bootRest

\* ---- pseudo_core.c:285-290, part_011:185-190: pthread_create fails ----
BootCreateFail ==
    /\ boot.pc = "create" /\ boot.i <= MaxCores
    /\ boot' = [boot EXCEPT !.global_running = FALSE,
                            !.w = [c \in 1..MaxCores |->
                                     IF c < boot.i THEN [@[c] EXCEPT !.running = FALSE]
                                     ELSE @[c]],
                            !.pc = "join"]
    /\ UNCHANGED bootRest

\* ---- pseudo_core.c:299-301, part_011:200-203: all workers are created ----
BootCreated ==
    /\ boot.pc = "create" /\ boot.i > MaxCores
    /\ boot' = [boot EXCEPT !.pc = "join"]
    /\ UNCHANGED bootRest

\* ---- pseudo_core.c:291-293, 302-304: pthread_join(th[j]) returns ----
BootJoin ==
    /\ boot.pc = "join" /\ boot.j < boot.i
    /\ boot.w[boot.j].pc = "exited"
    /\ boot' = [boot EXCEPT !.j = @ + 1]
    /\ UNCHANGED bootRest

\* ---- pseudo_core.c:295, 307, part_011:196, 207: scheduler_destroy, ----
\* ---- scheduler.c:155-160                                          ----
BootDestroy ==
    /\ boot.pc = "join" /\ boot.j >= boot.i
    /\ boot' = [boot EXCEPT !.locks = "destroyed", !.pc = "done"]
    /\ UNCHANGED bootRest

\* ---- pseudo_core.c:255-259, part_011:156-160: signal_handler, installed ----
\* ---- before the creation loop (pseudo_core.c:277-278)                   ----
BootSignal ==
    /\ boot.pc \in {"create", "join"} /\ boot.global_running
    /\ boot' = [boot EXCEPT !.global_running = FALSE]
    /\ UNCHANGED bootRest

\* ---- pseudo_core.c:130-148, part_011:73-79: the flags are set, worker c ----
\* ---- enters scheduler_report_access and locks queues[c].mutex          ----
BootReport(c) ==
    /\ boot.w[c].pc = "test"
    /\ boot.w[c].running /\ boot.global_running
    /\ boot.w[c].n < MaxBootIter
    /\ boot' = [boot EXCEPT !.w[c].pc = "sched"]
    /\ UNCHANGED bootRest

\* ---- pseudo_core.c:148-245: the call returns, the iteration ends ----
BootIterEnd(c) ==
    /\ boot.w[c].pc = "sched"
    /\ boot' = [boot EXCEPT !.w[c].pc = "test", !.w[c].n = @ + 1]
    /\ UNCHANGED bootRest

\* ---- pseudo_core.c:130, 247-251: a flag is clear, worker c returns ----
BootExit(c) ==
    /\ boot.w[c].pc = "test"
    /\ ~(boot.w[c].running /\ boot.global_running)
    /\ boot' = [boot EXCEPT !.w[c].pc = "exited"]
    /\ UNCHANGED bootRest

NextBoot ==
    \/ \E p \in Mains : BootMain(p)
    \/ BootCreate
    \/ BootCreateFail
    \/ BootCreated
    \/ BootJoin
    \/ BootDestroy
    \/ BootSignal
    \/ \E c \in 1..MaxCores :
          \/ BootReport(c)
          \/ BootIterEnd(c)
          \/ BootExit(c)

SpecBoot == Init /\ [][NextBoot]_vars

\* ---- version 2: the CacheEngine of cache_engine.c, one caller ----
v1Vars == <<cacheVars, disk, core, priv, schedVars, pipeRest>>
engRest == <<v1Vars, task, cent>>

\* ---- cache_engine.c:66-84: fnv1a_hash(key) % hash_table_size; FnvRes[k + 1] ----
\* ---- is fnv1a_hash(k) mod 6144, of which the table size is a divisor      ----
FnvRes == <<4549, 1956, 3591, 998, 321, 3872>>
get_hash_index(key) == FnvRes[key + 1] % DEFAULT_HASH_TABLE_SIZE

\* ---- cache_engine.c:87-89 ----
get_mutex_group(hash_index) == hash_index % DEFAULT_MUTEX_GROUPS

\* the position of the first entry of a chain with the key, 0 for none
\* (the walks of cache_engine.c:269-305, 366-400, 430-461)
EngFind(chain, key) ==
    IF \E i \in 1..Len(chain) : chain[i].key = key
    THEN CHOOSE i \in 1..Len(chain) :
            chain[i].key = key /\ \A j \in 1..(i - 1) : chain[j].key # key
    ELSE 0

EngUnlinkNothing(chain, key) == chain

\* ---- cache_engine.c:435-439, 678-692: the entry leaves its chain ----
EngUnlink(chain, key) ==
    LET i == EngFind(chain, key)
    IN IF i = 0 THEN chain ELSE SubSeq(chain, 1, i - 1) \o SubSeq(chain, i + 1, Len(chain))

\* ---- cache_engine.c:442-446, 667-671: the entry leaves the LRU list ----
LruWithout(lru, key) == SelectSeq(lru, LAMBDA x : x # key)

\* ---- cache_engine.c:280-292, 376-388: the entry moves to the head of the list ----
LruToFront(lru, key) == <<key>> \o LruWithout(lru, key)

\* ---- cache_engine_evict_batch, cache_engine.c:651-720, with the shard ----
\* ---- lock `held` in the caller's hands (-1: none); no entry is pinned ----
\* a victim of the shard the caller holds is waited for for ever (l.677)
RECURSIVE EvictBatch(_, _, _)
EvictBatch(e, n, held) ==
    IF n = 0 \/ e.lru = <<>>
    THEN e
    ELSE LET k == e.lru[Len(e.lru)]
             hi == get_hash_index(k)
             e1 == [e EXCEPT !.lru = SubSeq(@, 1, Len(@) - 1)]
         IN IF get_mutex_group(hi) = held
            THEN [e1 EXCEPT !.stuck = TRUE]
            ELSE EvictBatch([e1 EXCEPT !.hash_table[hi] = EngUnlink(@, k),
                                       !.current_entries = @ - 1,
                                       !.out = @ \cup {k}],
                            n - 1, held)

\* the ledger of the puts that stand, after a call that destroyed entries
Ledger(e) == [k \in EngKeys |-> IF k \in e.out THEN NULL ELSE eput[k]]

\* ---- cache_engine_put, cache_engine.c:257-353; ok: malloc of l.93 succeeds ----
EnginePut(key, block, ok) ==
    /\ ~eng.stuck
    /\ LET hi == get_hash_index(key)
           chain == eng.hash_table[hi]
           i == EngFind(chain, key)
           e0 == [eng EXCEPT !.op = "put", !.key = key, !.out = {}]
           full == eng.current_entries >= EngMaxEntries
           ev == IF full THEN EvictBatch(e0, EVICTION_BATCH_SIZE, get_mutex_group(hi)) ELSE e0
       IN IF i # 0
          THEN /\ eng' = [e0 EXCEPT !.hash_table[hi][i].block = block,
                                    !.lru = LruToFront(@, key), !.ret = 1]
               /\ eput' = [eput EXCEPT ![key] = block]
          ELSE IF ~ok
          THEN /\ eng' = [e0 EXCEPT !.ret = 0]
               /\ eput' = eput
          ELSE IF ev.stuck
          THEN /\ eng' = ev
               /\ eput' = Ledger(ev)
          ELSE IF full /\ ev.out = {}
          THEN /\ eng' = [ev EXCEPT !.ret = 0]
               /\ eput' = eput
          ELSE /\ eng' = [ev EXCEPT !.hash_table[hi] = <<[key |-> key, block |-> block]>> \o @,
                                    !.lru = <<key>> \o @,
                                    !.current_entries = @ + 1,
                                    !.ret = 1]
               /\ eput' = [Ledger(ev) EXCEPT ![key] = block]
    /\ UNCHANGED engRest

\* ---- cache_engine_get, cache_engine.c:355-417 ----
EngineGet(key) ==
    /\ ~eng.stuck
    /\ LET hi == get_hash_index(key)
           chain == eng.hash_table[hi]
           i == EngFind(chain, key)
           e0 == [eng EXCEPT !.op = "get", !.key = key, !.out = {}]
       IN eng' = IF i # 0
                 THEN [e0 EXCEPT !.lru = LruToFront(@, key), !.ret = chain[i].block]
                 ELSE [e0 EXCEPT !.ret = NULL]
    /\ UNCHANGED <<eput, engRest>>

\* ---- cache_engine_remove, cache_engine.c:419-468 ----
EngineRemove(key) ==
    /\ ~eng.stuck
    /\ LET hi == get_hash_index(key)
           chain == eng.hash_table[hi]
           i == EngFind(chain, key)
           e0 == [eng EXCEPT !.op = "remove", !.key = key, !.out = {}]
       IN IF i # 0
          THEN /\ eng' = [e0 EXCEPT !.hash_table[hi] = EngUnlink(@, key),
                                    !.lru = LruWithout(@, key),
                                    !.current_entries = @ - 1,
                                    !.out = {key}, !.ret = 1]
               /\ eput' = [eput EXCEPT ![key] = NULL]
          ELSE /\ eng' = [e0 EXCEPT !.ret = 0]
               /\ eput' = eput
    /\ UNCHANGED engRest

\* ---- cache_engine_force_eviction, cache_engine.c:800-802: evict_batch(count) ----
EngineEvict(count) ==
    /\ ~eng.stuck
    /\ LET e0 == [eng EXCEPT !.op = "evict", !.key = 0, !.out = {}]
           ev == EvictBatch(e0, count, 0 - 1)
       IN /\ eng' = [ev EXCEPT !.ret = IF Cardinality(ev.out) = count THEN 1 ELSE 0]
          /\ eput' = Ledger(ev)
    /\ UNCHANGED engRest

NextEngine ==
    \/ \E key \in EngKeys, block \in EngBlocks, ok \in BOOLEAN : EnginePut(key, block, ok)
    \/ \E key \in EngKeys : EngineGet(key)
    \/ \E key \in EngKeys : EngineRemove(key)
    \/ \E count \in 1..EVICTION_BATCH_SIZE : EngineEvict(count)

SpecEngine == Init /\ [][NextEngine]_vars

\* ---- version 2: one TaskEntity and one CoreEntity, one caller ----
\* ---- task_entity.c:63-77 ----
validate_state_transition(current_state, new_state) ==
    CASE current_state = "PENDING" -> new_state \in {"RUNNING", "CANCELLED"}
      [] current_state = "RUNNING" -> new_state \in {"COMPLETED", "FAILED", "CANCELLED"}
      [] OTHER -> FALSE

\* ---- task_entity.c:181-207 ----
task_entity_set_state(new_state) ==
    /\ task' = IF validate_state_transition(task.state, new_state)
               THEN [task EXCEPT !.state = new_state, !.op = "set_state",
                                 !.arg = new_state, !.ret = "true"]
               ELSE [task EXCEPT !.op = "set_state", !.arg = new_state, !.ret = "false"]
    /\ UNCHANGED <<v1Vars, engVars, cent>>

\* ---- task_entity.c:240-258 ----
task_entity_set_priority(new_priority) ==
    /\ task' = IF task.state # "PENDING"
               THEN [task EXCEPT !.op = "set_priority", !.arg = new_priority, !.ret = "false"]
               ELSE [task EXCEPT !.priority = new_priority, !.op = "set_priority",
                                 !.arg = new_priority, !.ret = "true"]
    /\ UNCHANGED <<v1Vars, engVars, cent>>

\* ---- task_entity.c:229-238 ----
task_entity_get_priority ==
    /\ task' = [task EXCEPT !.op = "get_priority", !.arg = "none", !.ret = task.priority]
    /\ UNCHANGED <<v1Vars, engVars, cent>>

\* ---- unnamed/part_002:180-204: the table of core_entity_set_state ----
ValidTransition(state, new_state) ==
    CASE state = "IDLE" -> new_state \in {"RUNNING", "SHUTDOWN"}
      [] state = "RUNNING" -> new_state \in {"IDLE", "SLEEPING", "ERROR", "SHUTDOWN"}
      [] state = "SLEEPING" -> new_state \in {"RUNNING", "SHUTDOWN"}
      [] state = "ERROR" -> new_state \in {"IDLE", "SHUTDOWN"}
      [] OTHER -> FALSE

\* ---- unnamed/part_002:171-220 ----
core_entity_set_state(new_state) ==
    /\ cent' = IF ValidTransition(cent.state, new_state)
               THEN [cent EXCEPT !.state = new_state, !.op = "set_state", !.ret = TRUE]
               ELSE [cent EXCEPT !.op = "set_state", !.ret = FALSE]
    /\ UNCHANGED <<v1Vars, engVars, task>>

\* ---- unnamed/part_002:228-259 ----
core_entity_assign_task(t) ==
    /\ cent' = IF cent.state \notin {"IDLE", "RUNNING"} \/ cent.task_count >= MaxTasks
               THEN [cent EXCEPT !.op = "assign_task", !.ret = FALSE]
               ELSE [cent EXCEPT !.current_task = t, !.task_count = @ + 1,
                                 !.state = "RUNNING", !.op = "assign_task", !.ret = TRUE]
    /\ UNCHANGED <<v1Vars, engVars, task>>

\* ---- unnamed/part_002:275-304 ----
core_entity_complete_current_task ==
    /\ cent' = IF cent.current_task = NULL
               THEN [cent EXCEPT !.op = "complete_current_task", !.ret = FALSE]
               ELSE [cent EXCEPT !.current_task = NULL, !.task_count = @ - 1,
                                 !.state = IF cent.task_count - 1 = 0 THEN "IDLE" ELSE @,
                                 !.op = "complete_current_task", !.ret = TRUE]
    /\ UNCHANGED <<v1Vars, engVars, task>>

NextEntities ==
    \/ \E new_state \in TaskStates : task_entity_set_state(new_state)
    \/ \E new_priority \in TaskPriorities : task_entity_set_priority(new_priority)
    \/ task_entity_get_priority
    \/ \E new_state \in CoreStates : core_entity_set_state(new_state)
    \/ \E t \in 1..MaxTaskId : core_entity_assign_task(t)
    \/ core_entity_complete_current_task

SpecEntities == Init /\ [][NextEntities]_vars

\* ---- the worker's view: recency of the pages ----
\* place of x in sq, 0 when absent
Pos(sq, x) == IF \E i \in 1..Len(sq) : sq[i] = x
              THEN CHOOSE i \in 1..Len(sq) : sq[i] = x ELSE 0

\* offsets of the pages in memory, the entry in S aside
ResidentOffsets(S) == {ent[s].offset : s \in Resident \ S}

\* the n most recently returned offsets
MostRecent(n) == {hist.order[i] : i \in 1..(IF n < Len(hist.order) THEN n ELSE Len(hist.order))}

\* a thread is inside the eviction its own cache_get started (cache.c:108)
Evicting(t) == th[t].pc \in {"e_lock", "e_body", "e_free"} /\ th[t].ne # NULL

\* C11: the eviction of a miss reclaims the page whose most recent get is the
\* oldest, never the page the get is about to return; and between calls the
\* pages in memory are the max_entries most recently returned offsets, the
\* oldest of them at lru_tail.
C11_EvictsLeastRecent ==
    /\ \A t \in Threads : Evicting(t) =>
          LET ev == th[t].ev
              others == ResidentOffsets({th[t].ne})
          IN /\ ev # th[t].ne
             /\ ent[ev].live
             /\ \A o \in others : Pos(hist.order, o) <= Pos(hist.order, ent[ev].offset)
    /\ (Serving /\ hist.last.ok) =>
          /\ ResidentOffsets({}) = MostRecent(max_entries)
          /\ lru_tail # NULL
          /\ \A o \in MostRecent(max_entries) :
                Pos(hist.order, o) <= Pos(hist.order, ent[lru_tail].offset)

\* an eviction in progress in a cache holding more than one other page
C11_Evicting == \E t \in Threads : Evicting(t) /\ Cardinality(ResidentOffsets({th[t].ne})) > 1

\* the last cache_get returned a buffer and no call for another offset has begun
LastGetStands ==
    /\ hist.last.ok /\ ~destroying
    /\ \A t \in Threads : th[t].pc = "idle" \/ th[t].off = hist.last.off

SameOffsetTwice ==
    /\ hist.prev.ok /\ hist.last.ok
    /\ hist.prev.off = hist.last.off
    /\ ~hist.prev.wr /\ ~hist.last.wr

\* C13: of two consecutive gets for one offset without write intent, the second
\* returns a buffer with the contents the first returned and leaves entry_count
\* as it found it.
C13_RepeatedGetStable ==
    SameOffsetTwice =>
       /\ hist.last.data = hist.prev.data
       /\ hist.last.rd = hist.prev.rd
       /\ hist.last.rest = hist.prev.rest
       /\ hist.last.cnt1 = hist.last.cnt0

\* the second of two such gets has returned
C13_SecondGetReturned == SameOffsetTwice /\ th[Worker].pc = "idle"

\* the step in which cache_get returns NULL because pread failed (cache.c:88-96)
ReadFailed(t) == th[t].pc = "g_read" /\ th'[t].pc = "idle"

\* the cache after the step is the cache the call found: same bucket heads, LRU
\* ends and count, every page that was resident still resident with the links
\* it had, and the entry ne on no chain and not on the LRU list
AsAtCall(ne) ==
    /\ hash' = hist.snap.hash
    /\ lru_head' = hist.snap.lru_head
    /\ lru_tail' = hist.snap.lru_tail
    /\ entry_count' = hist.snap.entry_count
    /\ \A s \in Slots : hist.snap.ent[s].live =>
          /\ ent'[s].live
          /\ ent'[s].next = hist.snap.ent[s].next
          /\ ent'[s].prev = hist.snap.ent[s].prev
    /\ \A b \in Buckets : ne \notin Elems(Walk(ent', hash'[b], MaxSlots + 1))
    /\ ne \notin Elems(Walk(ent', lru_head', MaxSlots + 1))

\* C14: a cache_get whose pread fails returns failure and leaves the cache as it
\* found it: the new entry is on no chain and not on the LRU list, entry_count is
\* unchanged and every resident page keeps its chain and LRU links.
C14_FailedReadLeavesCache ==
    [][ReadFailed(Worker) => AsAtCall(th[Worker].ne)]_vars

\* a pread has failed in a cache that held pages
C14_AfterFailedRead ==
    /\ th[Worker].pc = "idle" /\ ~destroying
    /\ ~hist.last.ok /\ hist.prev.ok
    /\ "uaf" \in ub

\* cache_get is about to return the buffer of a miss whose pread came back short
ShortReadReturns(t) ==
    /\ th[t].pc = "g_unlock"
    /\ ent[th[t].ne].rd < PAGE_SIZE

\* C15: when the pread of a miss returns n bytes, 0 <= n < PAGE_SIZE (n = 0 at
\* the end of the file included), cache_get returns the buffer and its bytes
\* [n, PAGE_SIZE) are zero.
C15_ShortReadZeroFilled ==
    \A t \in Threads : ShortReadReturns(t) => ent[th[t].ne].rest = "zero"

\* a miss at the end of the file (pread returned 0) is about to return
C15_ReadAtEndOfFile == \E t \in Threads : ShortReadReturns(t) /\ ent[th[t].ne].rd = 0

\* C16: when the write-back of a dirty page, on eviction or on destroy, writes
\* fewer than PAGE_SIZE bytes, the page stays marked dirty.
C16_ShortWriteKeepsDirty ==
    [][\A t \in Threads :
          /\ EvictWriteShort(t) => ent'[th[t].ev].dirty
          /\ DestroyWalkShort(t) => ent'[th[t].e].dirty]_vars

\* an eviction has issued the write-back of a dirty page
C16_WriteBackIssued == \E t \in Threads : th[t].pc = "e_free" /\ th[t].wb /\ th[t].dty

\* cache_destroy has returned
DestroyDone == destroying /\ \A t \in Threads : th[t].pc = "idle"

\* the pages that were resident and dirty when cache_destroy was called
DirtyAtDestroy == {s \in Slots : hist.snap.ent[s].live /\ hist.snap.ent[s].dirty}

\* the pages cache_destroy issued a pwrite for, at their own offset
WrittenByDestroy == {s \in Slots : hist.snap.ent[s].live /\ reclaim[s].done /\ reclaim[s].wb}

\* C17: cache_destroy, after any sequence of gets and evictions, issues a pwrite
\* for each page that is resident and dirty when it starts, and for no other page.
C17_DestroyWritesDirty == DestroyDone => WrittenByDestroy = DirtyAtDestroy

\* cache_destroy has returned from a cache that held a dirty and a clean page
C17_DestroyedMixed ==
    /\ DestroyDone
    /\ DirtyAtDestroy # {}
    /\ \E s \in Slots : hist.snap.ent[s].live /\ ~hist.snap.ent[s].dirty

\* the shard lock that protects the page of offset o (cache.c:46-48)
PageLock(o) == mutex[mutex_group(hash_func(o))]

\* C19: the worker copies the bytes of a page cache_get returned into its
\* scratch buffer while it still holds the cache lock protecting that page, so
\* that the page cannot be evicted and reclaimed while it is being read.
C19_CopyUnderLock ==
    [][\A t \in Threads : WorkerCopy(t) => PageLock(hist.last.off) = t]_vars

\* the worker has copied a page out of the buffer cache_get returned
C19_PageCopied == hist.step = "copied" /\ hist.last.ok

\* C18: the workers see one cache: no two workers ever hold cached copies of
\* the same offset that differ (each offset has one history of gets, dirty
\* marks, evictions and write-backs, in real-time order).
C18_NoDivergingCopies ==
    \A w1, w2 \in Threads : \A o \in Cached(w1) \cap Cached(w2) : priv[w1][o] = priv[w2][o]

\* two workers hold the page of one offset in their caches
C18_SharedOffset == \E w1, w2 \in Threads : w1 # w2 /\ Cached(w1) \cap Cached(w2) # {}

\* C20: between two report_access(w, b) calls with no migration of b in
\* between, the hot counter of b's unit in w's queue never decreases, and it
\* is larger after the later call than it was after the earlier one.
C20_HotGrows ==
    [][\A w \in Threads : \A b \in Blocks :
         (seen[w][b] > 0 /\ seen'[w][b] > 0) =>
            /\ HotOf(queues'[w], b) >= HotOf(queues[w], b)
            /\ ReportAccess(w, b) => HotOf(queues'[w], b) > seen[w][b]]_vars

\* a block reported before, and not migrated since, was reported again
\* while the queue of its core is full
C20_ReportedAgain ==
    \E w \in Threads : \E b \in Blocks :
        /\ Len(queues[w]) = MAX_QUEUE_SIZE
        /\ seen[w][b] > 1
        /\ HotOf(queues[w], b) = seen[w][b]

\* C21: when report_access(w, b) finds no unit of b and the queue of w is
\* full, exactly one unit is replaced by (b, hot = 1): the one with the
\* smallest hot and, among equals, the lowest index; the count, every other
\* unit of the queue and the other queues are unchanged.
C21_ReplacesLeastHot ==
    [][\A w \in Threads : \A b \in Blocks :
         (/\ ReportAccess(w, b)
          /\ IndexOf(queues[w], b) = 0
          /\ Len(queues[w]) = MAX_QUEUE_SIZE) =>
            /\ Len(queues'[w]) = Len(queues[w])
            /\ \A v \in Others(w) : queues'[v] = queues[v]
            /\ \E i \in Units(queues[w]) :
                 /\ \A j \in Units(queues[w]) : queues[w][i].hot <= queues[w][j].hot
                 /\ \A j \in 1..(i - 1) : queues[w][j].hot > queues[w][i].hot
                 /\ queues'[w][i].block = b
                 /\ queues'[w][i].hot = 1
                 /\ \A j \in Units(queues[w]) \ {i} : queues'[w][j] = queues[w][j]]_vars

\* a block lost its unit to a report on a full queue whose units had
\* different counters: the hotter unit is still there, not at the last position
C21_Replaced ==
    \E w \in Threads : \E b \in Blocks :
        /\ Len(queues[w]) = MAX_QUEUE_SIZE
        /\ seen[w][b] > 0
        /\ IndexOf(queues[w], b) = 0
        /\ queues[w][1].hot > 1
        /\ queues[w][MAX_QUEUE_SIZE].hot = 1

\* C22: with no concurrent scheduler operation, should_migrate(w) returns
\* true if and only if the count of w's queue is less than avg minus
\* MIGRATION_THRESHOLD, avg being the integer quotient of the sum of the
\* other cores' counts by CORES - 1.
C22_ShouldMigrateIff ==
    [][\A w \in 1..MaxCores :
         (w \in Cores /\ Cardinality(Cores) > 1 /\ ShouldOwn(w)) =>
            ((mig'[w].pc = "scan") <=>
               Len(queues[w]) < (SumCount(Others(w)) \div (Cardinality(Cores) - 1)) - threshold)]_vars

\* should_migrate returned true for a core whose queue is not empty
C22_MigrationWanted ==
    \E w \in Cores : mig[w].pc = "scan" /\ Len(queues[w]) > 0

\* the other cores with the largest count, and the fresh units of a queue
Largest(w) == {d \in Others(w) : \A j \in Others(w) : Len(queues[j]) <= Len(queues[d])}
FreshUnits(q) == {i \in Units(q) : Fresh(q[i])}

\* C23: get_migrated_task(w) with no concurrent scheduler operation: if the
\* largest queue among the other cores has count > MIGRATION_THRESHOLD and
\* holds a unit seen within the last 10 seconds, the call returns the offset
\* of the hottest such unit and removes exactly that unit (the donor's count
\* decreases by one, its other units are kept, in order); otherwise it
\* returns none (0) and changes no queue.
C23_TakesHottestFresh ==
    [][\A w \in 1..MaxCores : w \in Cores =>
         /\ (MigScan(w) /\ mig'[w].pc = "ret") =>
               /\ \A d \in Largest(w) : Len(queues[d]) <= threshold
               /\ mig'[w].m = 0
               /\ queues' = queues
         /\ MigTake(w) =>
               LET d == mig[w].id
                   q == queues[d]
               IN  /\ d \in Largest(w)
                   /\ Len(q) > threshold
                   /\ IF FreshUnits(q) # {}
                      THEN \E i \in FreshUnits(q) :
                             /\ \A j \in FreshUnits(q) : q[j].hot <= q[i].hot
                             /\ mig'[w].m = q[i].block
                             /\ Len(queues'[d]) = Len(q) - 1
                             /\ \A j \in 1..(i - 1) : queues'[d][j] = q[j]
                             /\ \A j \in i..(Len(q) - 1) : queues'[d][j] = q[j + 1]
                             /\ \A v \in Cores \ {d} : queues'[v] = queues[v]
                      ELSE mig'[w].m = 0 /\ queues' = queues]_vars

\* get_migrated_task returned a block of a donor whose first unit is fresh
\* and stayed in its queue
C23_Migrated ==
    \E w \in Cores :
        /\ mig[w].pc = "ret"
        /\ mig[w].id # 0
        /\ given[mig[w].m] = w
        /\ Len(queues[mig[w].id]) > 0
        /\ Fresh(queues[mig[w].id][1])

\* C24: an offset handed out by get_migrated_task is returned to a second
\* requester only if the first requester (the winner) has re-inserted it
\* through a later report_access; otherwise a migrated offset is delivered
\* to at most one requester.
C24_DeliveredOnce ==
    [][\A w \in 1..MaxCores :
         (w \in Cores /\ MigTake(w) /\ mig'[w].m # 0) => given[mig'[w].m] \in {0, w}]_vars

\* a core holds a migrated offset it has not reported since
C24_Delivered ==
    \E w \in Cores : mig[w].pc = "ret" /\ mig[w].m # 0 /\ given[mig[w].m] = w

\* C25: with CORES = 1 the migration step of an iteration (should_migrate,
\* then get_migrated_task if it returned true) completes, and it never
\* returns a foreign offset.
C25_SingleCoreCompletes ==
    Cardinality(Cores) = 1 => \A w \in Cores : mig[w].pc # "fpe" /\ mig[w].m = 0

\* the one core of a build with CORES = 1 is back from get_migrated_task
C25_SingleCoreAsked ==
    Cardinality(Cores) = 1 /\ \E w \in Cores : mig[w].pc = "ret" /\ Len(queues[w]) > 0

\* C26: whenever cache_get fails in an iteration, the worker does no
\* compression, no write and no ring append in that iteration, and it sleeps
\* for a back-off delay before it starts the next iteration.
C26_FailedGetBacksOff ==
    (it.pc = "top" /\ it.failed) => it.done = {"sleep"}

\* an iteration in which cache_get failed is over
C26_GetFailed == it.pc = "top" /\ it.failed

\* C27: on every successful compression the worker issues one positioned
\* write at the offset of the iteration, and its byte count is the size the
\* compressor returned for the page.
C27_WritesCompressedSize ==
    (it.pc \in {"ring", "sleep", "top"} /\ it.cs > 0) =>
        ("write" \in it.done /\ it.wlen = it.cs)

\* a page that compressed to less than a page was written
C27_Written == "write" \in it.done /\ it.cs > 0 /\ it.cs < PAGE_SIZE

\* C28: the compression level of an iteration is COMPRESSION_MAX_LVL if the
\* previous successful compressed size C_prev has C_prev / PAGE_SIZE > 0.8,
\* else COMPRESSION_MIN_LVL; C_prev is PAGE_SIZE before the first compression.
C28_LevelFollowsRatio ==
    [][(IterCompress /\ it.prog = "core") =>
          it'.lvl = IF 5 * it.prev > 4 * PAGE_SIZE
                    THEN COMPRESSION_MAX_LVL ELSE COMPRESSION_MIN_LVL]_vars

\* a page was compressed after an earlier one had compressed to less than a page
C28_LaterCompression ==
    it.prog = "core" /\ it.pc = "write" /\ it.prev # PAGE_SIZE

\* C29: after any sequence of appends by any number of workers the ring
\* cursor is a multiple of PAGE_SIZE and less than RING_SIZE, so an append
\* that is accepted copies its page into one in-bounds region and a wrap
\* never splits a page.
C29_CursorOnPage ==
    /\ ring_pos % PAGE_SIZE = 0
    /\ ring_pos < RING_SIZE
    /\ \A w \in Threads : rt[w].pc = "copy" => ring_pos + PAGE_SIZE <= RING_SIZE

\* a worker is about to copy the page that makes the cursor wrap
C29_LastPage ==
    \E w \in Threads : rt[w].pc = "copy" /\ ring_pos = RING_SIZE - PAGE_SIZE

\* C30: the ring log is created once, before any worker appends, and is torn
\* down only after every worker has stopped appending: no worker's start or
\* exit re-initialises or frees the ring while another worker can still append.
C30_RingFollowsSupervisor ==
    [][\A w \in Threads :
         /\ RingInit(w) => \A v \in Threads \ {w} : rt[v].pc = "new"
         /\ RingDestroy(w) => \A v \in Threads \ {w} : rt[v].pc = "done"]_vars

\* two workers are in their loops, one of them inside an append
C30_TwoWorkersAppend ==
    \E w, v \in Threads : w # v /\ rt[w].pc = "copy" /\ rt[v].pc \in {"run", "lock", "copy", "unlock"}

\* C31: once global_running or the worker's own running flag is cleared, the
\* worker finishes at most its current iteration, starts no further one and
\* exits, so that eventually the supervisor's join returns.
C31_StopsWhenAsked == (~sup.global_running \/ ~sup.running) ~> sup.joined

\* the flag is cleared while the worker is inside an iteration, in cache_get
C31_AskedMidIteration ==
    ~sup.global_running /\ sup.pc = "body" /\ th[Worker].pc \notin {"idle"}

\* C32: for the v2 CacheEngine, get(k) returns the block of the last
\* successful put(k, b) as long as k has been neither removed nor evicted
\* since, and NULL when k was never put or after remove(k) returned true.
C32_GetReturnsPut ==
    (eng.op = "get" /\ ~eng.stuck) => eng.ret = eput[eng.key]

\* a get found the block of a put made over an earlier put of the key, and
\* another key has been removed or evicted
C32_GotSecondPut ==
    /\ eng.op = "get" /\ eng.ret = 2
    /\ \E k \in EngKeys : eput[k] = NULL /\ k # eng.key
    /\ eng.current_entries = EngMaxEntries

\* C33: for a v2 TaskEntity that has been moved from PENDING to RUNNING,
\* task_entity_set_priority(p) returns true and task_entity_get_priority
\* then returns p.
C33_PriorityOfRunningTask ==
    [][\A p \in TaskPriorities :
         (task.state = "RUNNING" /\ task_entity_set_priority(p))
            => task'.ret = "true" /\ task'.priority = p]_vars

\* set_priority has been called on a task that is RUNNING
C33_PrioritySetWhileRunning ==
    task.state = "RUNNING" /\ task.op = "set_priority"

\* C39: for a v2 CoreEntity every change of state made by set_state,
\* assign_task or complete_current_task follows the table of allowed
\* transitions of set_state; once the state is SHUTDOWN nothing changes it.
C39_FollowsTransitionTable ==
    [][cent'.state # cent.state => ValidTransition(cent.state, cent'.state)]_vars

\* a task was completed on a core that is not RUNNING any more
C39_CompletedAfterShutdown ==
    cent.op = "complete_current_task" /\ cent.ret /\ cent.task_count = 0

\* C34: under any interleaving of get_migrated_task and report_access calls
\* a unit is removed only from a donor queue whose count is greater than
\* MIGRATION_THRESHOLD at the moment of the removal.
C34_DonorAboveThreshold ==
    [][\A d \in 1..MaxCores :
         (d \in Cores /\ Len(queues'[d]) < Len(queues[d])) => Len(queues[d]) > threshold]_vars

\* two cores have chosen the same donor and are about to take a unit from it
C34_TwoTakers ==
    \E w, v \in Cores :
       /\ w # v /\ mig[w].pc = "take" /\ mig[v].pc = "take"
       /\ mig[w].id = mig[v].id

\* C35: the write-back of a dirty page by cache_evict or cache_destroy never
\* replaces what a worker iteration wrote to the file at that offset: once
\* the worker has written offset X, the content at X changes only when the
\* worker writes X again.
C35_WriteBackKeepsPayload ==
    [][\A o \in Offsets :
         (disk[o] > 0 /\ disk'[o] # disk[o])
            => (hist.step = "copied" /\ hist'.step = "idle" /\ hist.last.off = o)]_vars

\* the worker has written an offset whose page is still resident and dirty
C35_WrittenPastCache ==
    \E s \in Slots : ent[s].live /\ ent[s].dirty /\ disk[ent[s].offset] > ent[s].data

\* C36: no cache routine reads or writes a cache entry after reclaiming it,
\* and no entry is reclaimed twice: after the free of the read-error path, of
\* cache_evict or of cache_destroy no later step refers to the entry.
C36_NoUseAfterReclaim == "uaf" \notin ub /\ "double_free" \notin ub

\* cache_evict or cache_destroy has reclaimed an entry
C36_EntryReclaimed == \E s \in Slots : reclaim[s].done

\* C37: whenever get_migrated_task has removed a unit from a donor queue the
\* caller receives a value it treats as a migrated offset: the value that
\* stands for "none" (0, pseudo_core.c:153) is never the block of a unit,
\* offset 0 of worker 0's segment included.
C37_MigratedIsTaken ==
    \A w \in Cores : (mig[w].pc = "ret" /\ mig[w].id # 0) => mig[w].m # 0

\* get_migrated_task returns to a caller after it removed a unit
C37_UnitRemoved == \E w \in Cores : mig[w].pc = "ret" /\ mig[w].id # 0

\* C38: every scheduler queue lock is initialised by scheduler_init before a
\* worker makes a scheduler call, and is destroyed only when every worker
\* that was created has exited.
C38_LocksLiveWhileUsed ==
    /\ \A c \in 1..MaxCores : boot.w[c].pc = "sched" => boot.locks = "initialised"
    /\ boot.locks = "destroyed" =>
          \A c \in 1..MaxCores : boot.w[c].pc \in {"none", "exited"}

\* a worker is inside its first scheduler call
C38_FirstSchedulerCall == \E c \in 1..MaxCores : boot.w[c].pc = "sched" /\ boot.w[c].n = 0

\* the entries the bucket chains of the hash table lead to
HashLinked == UNION {Elems(BucketWalk(b)) : b \in Buckets}

\* C40: after every cache operation entry_count equals the number of entries
\* linked in the hash table, which equals the number of entries on the LRU list.
C40_CountMatchesLists ==
    Serving => /\ entry_count = Cardinality(HashLinked)
               /\ Cardinality(HashLinked) = Len(LruWalk)

\* an operation has returned and left at least two pages in the cache
C40_TwoPagesCounted == Serving /\ calls > 0 /\ entry_count >= 2
====
